---- MODULE Spec2Model ----
(***************************************************************************)
(* A model of the media analysis pipeline of Image-Analysis:               *)
(*   - withExponentialBackoff        (utils/retry)                         *)
(*   - extractFramesFromVideo        (utils/mediaUtils.ts)                 *)
(*   - formatTime                    (utils/mediaUtils.ts)                 *)
(*   - GeminiService.analyzeVideoFrames / analyzeImage                     *)
(*   - the VideoAnalyzer and ImageAnalyzer components' state and handlers  *)
(*   - the overlay colour assignment of ImageAnalyzer and WebcamAnalyzer   *)
(*                                                                         *)
(* Every asynchronous function is modelled by the state it holds between   *)
(* two awaits; one action is one browser task: an event handler or a       *)
(* promise settlement together with the whole chain of continuations       *)
(* (microtasks) it triggers, up to the next await of something external.   *)
(***************************************************************************)
EXTENDS Integers, Sequences, FiniteSets, TLC

VARIABLES
    call,      \* SpecRetry: one invocation chain of withExponentialBackoff
    sampler,   \* SpecSampler: one run of extractFramesFromVideo
    video,     \* Spec: the state (useState) of the VideoAnalyzer component
    runs,      \* Spec: the invocations of VideoAnalyzer's handleAnalyze
    agg,       \* SpecOverlay: one rendering of a result's overlay
    image,     \* SpecImage: the state (useState) of the ImageAnalyzer component
    imageRuns, \* SpecImage: the invocations of ImageAnalyzer's handleAnalyze
    webcam,    \* SpecWebcam: the state and refs of the WebcamAnalyzer component
    cams,      \* SpecWebcam: the invocations of startCamera
    streams,   \* SpecWebcam: the camera streams getUserMedia has handed out
    shot,      \* SpecWebcam: the invocation of handleCapture
    fmt        \* SpecFormat: one call of formatTime

vars ==
    <<call, sampler, video, runs, agg, image, imageRuns,
      webcam, cams, streams, shot, fmt>>

\* What the actions of one specification leave alone.
camera == <<webcam, cams, streams, shot>>
notRetry == <<sampler, video, runs, agg, image, imageRuns, camera, fmt>>
notSampler == <<call, video, runs, agg, image, imageRuns, camera, fmt>>
notVideo == <<call, sampler, agg, image, imageRuns, camera, fmt>>
notOverlay == <<call, sampler, video, runs, image, imageRuns, camera, fmt>>
notImage == <<call, sampler, video, runs, agg, camera, fmt>>
notWebcam == <<call, sampler, video, runs, agg, image, imageRuns, fmt>>
notFormat ==
    <<call, sampler, video, runs, agg, image, imageRuns, camera>>

(***************************************************************************)
(* Bounds of the model.                                                    *)
(***************************************************************************)
\* Time is counted in ticks; a second has TicksPerSecond ticks, so durations
\* that are not whole seconds are covered.
TicksPerSecond == 2
\* The longest video duration drawn, in ticks.
MaxDuration == 62
\* The largest retry budget drawn for a stand-alone withExponentialBackoff.
MaxRetries == 4
\* The number of handleAnalyze invocations in flight at once.
MaxRuns == 2
\* The longest frame list a modelled video yields.
MaxVideoFrames == 2
\* The number of object names, the longest object list over all of them and
\* the longest object list that walks through them.
NumNames == 10
MaxObjects == 3
MaxLongObjects == 18
\* The longest object list of a still-image response.
MaxImageObjects == 1
\* The startCamera invocations pending at once, and the streams handed out.
MaxCams == 2
MaxStreams == 3
\* The longest time formatted, in ticks, every shorter one being formatted
\* too.
MaxFormatTicks == 7400

\* null, for a state holding a string and for a state holding an object.
None == "none"
Null == [null |-> TRUE]

Min(a, b) == IF a < b THEN a ELSE b
Max(a, b) == IF a > b THEN a ELSE b

RECURSIVE Pow2(_)
Pow2(n) == IF n <= 0 THEN 1 ELSE 2 * Pow2(n - 1)

(***************************************************************************)
(* withExponentialBackoff(fn, retries = 3, delay = 1000)                   *)
(*                                                                         *)
(* The chain of recursive invocations is one record.  pc is where the      *)
(* current invocation stands:                                              *)
(*   "calling"   fn() has been invoked and has not settled                 *)
(*   "waiting"   the setTimeout(resolve, delay) of the catch is pending    *)
(*   "returned"  the chain resolved with value                             *)
(*   "thrown"    the chain rejected with error                             *)
(* retries and delay are the parameters of the current invocation.         *)
(* History kept for the claims: args (the parameters of the outermost      *)
(* invocation), attempts (invocations of fn), waits (the delays of the     *)
(* timers that have elapsed, in order) and caught (the errors fn threw,    *)
(* in order).                                                              *)
(***************************************************************************)
defaultRetries == 3
defaultDelay == 1000

NoCall ==
    [pc |-> "none", retries |-> 0, delay |-> 0, args |-> <<0, 0>>,
     attempts |-> 0, waits |-> <<>>, caught |-> <<>>,
     value |-> None, error |-> None]

\* Entering withExponentialBackoff: try { return await fn(); }
withExponentialBackoff(retries, delay) ==
    [NoCall EXCEPT !.pc = "calling", !.retries = retries, !.delay = delay,
                   !.args = <<retries, delay>>, !.attempts = 1]

\* fn() resolved with v: return await fn().
fnResolved(c, v) == [c EXCEPT !.pc = "returned", !.value = v]

\* A chain that rejects with the first error it caught, not the last.
FirstCaughtError(c, e) == IF c.caught = <<>> THEN e ELSE c.caught[1]

\* The error the chain rejects with when fn threw e with no retries left.
ThrownError(c, e) == e

\* A catch block that still retries when no retry is left.
fnRejectedOneMore(c, e) ==
    IF c.retries < 0
    THEN [c EXCEPT !.pc = "thrown", !.caught = Append(@, e),
                   !.error = ThrownError(c, e)]
    ELSE [c EXCEPT !.pc = "waiting", !.caught = Append(@, e)]

\* A catch block that invokes fn again at once, without awaiting the timer.
fnRejectedEager(c, e) ==
    IF c.retries <= 0
    THEN [c EXCEPT !.pc = "thrown", !.caught = Append(@, e),
                   !.error = ThrownError(c, e)]
    ELSE [c EXCEPT !.pc = "calling", !.caught = Append(@, e),
                   !.retries = @ - 1, !.delay = @ * 2,
                   !.attempts = @ + 1]

\* fn() rejected with e: the catch block, up to its await of the timer.
fnRejected(c, e) ==
    IF c.retries <= 0
    THEN [c EXCEPT !.pc = "thrown", !.caught = Append(@, e),
                   !.error = ThrownError(c, e)]
    ELSE [c EXCEPT !.pc = "waiting", !.caught = Append(@, e)]

\* A doubling that stops growing at 4000 ms.
CappedDelay(delay) == Min(delay * 2, 4000)

\* The delay of the recursive invocation.
NextDelay(delay) == delay * 2

\* The timer elapsed: return withExponentialBackoff(fn, retries - 1, delay * 2),
\* whose first statement invokes fn again.
timerElapsed(c) ==
    [c EXCEPT !.pc = "calling", !.retries = @ - 1, !.delay = NextDelay(@),
              !.waits = Append(@, c.delay), !.attempts = @ + 1]

(***************************************************************************)
(* extractFramesFromVideo(file, onProgress)                                *)
(*                                                                         *)
(* pc is the state of the video element:                                   *)
(*   "loading"   src is set, metadata not yet loaded                       *)
(*   "seeking"   video.currentTime was assigned, seeked not yet fired      *)
(*   "stopped"   no seek pending (after resolve, or after a reject)        *)
(* promise is the state of the returned promise, reason its rejection.     *)
(* duration is video.duration in ticks; currentTime (seconds), frameCount  *)
(* and frames are the closure's variables; ctx says whether                *)
(* canvas.getContext('2d') returned a context. progress is the sequence of *)
(* values passed to onProgress, seeks the sequence of seek targets,        *)
(* revoked the number of calls of URL.revokeObjectURL(url).                *)
(***************************************************************************)
interval == 3
maxFrames == 10

NoSampler ==
    [pc |-> "none", promise |-> "none", reason |-> None, duration |-> 0,
     ctx |-> TRUE, currentTime |-> 0, frameCount |-> 0, frames |-> <<>>,
     progress |-> <<>>, seeks |-> <<>>, revoked |-> 0]

\* The promise executor: the elements are created and video.src is set.
extractFramesFromVideo(duration, ctx) ==
    [NoSampler EXCEPT !.pc = "loading", !.promise = "pending",
                      !.duration = duration, !.ctx = ctx]

\* A loop that also stops at a sample time equal to the duration.
SamplingDoneAtDuration(s) ==
    s.currentTime * TicksPerSecond >= s.duration \/ s.frameCount >= maxFrames

\* A loop that stops at the end of the video only.
SamplingDoneUncapped(s) ==
    s.currentTime * TicksPerSecond > s.duration

\* The loop condition of captureFrame: sampling is over.
SamplingDone(s) ==
    s.currentTime * TicksPerSecond > s.duration \/ s.frameCount >= maxFrames

\* captureFrame(): resolve(frames), or seek to currentTime.
\* A sampler that seeks to the next two positions at once.
captureFrameAhead(s) ==
    IF SamplingDone(s)
    THEN [s EXCEPT !.pc = "stopped",
                   !.revoked = @ + 1,
                   !.promise = IF @ = "pending" THEN "resolved" ELSE @]
    ELSE [s EXCEPT !.pc = "seeking",
                   !.seeks = Append(Append(@, s.currentTime),
                                    s.currentTime + interval)]

captureFrame(s) ==
    IF SamplingDone(s)
    THEN [s EXCEPT !.pc = "stopped",
                   !.revoked = @ + 1,
                   !.promise = IF @ = "pending" THEN "resolved" ELSE @]
    ELSE [s EXCEPT !.pc = "seeking", !.seeks = Append(@, s.currentTime)]

\* A sampling that starts one interval into the video.
onloadedmetadataSkippingFirst(s) ==
    captureFrame([s EXCEPT !.currentTime = interval, !.frameCount = 0])

\* video.onloadedmetadata: currentTime = 0, frameCount = 0, captureFrame().
onloadedmetadata(s) ==
    captureFrame([s EXCEPT !.currentTime = 0, !.frameCount = 0])

\* The progress computed from the count before its increment.
ProgressBeforeIncrement(frameCount) ==
    Min(100, (200 * (frameCount - 1) + maxFrames) \div (2 * maxFrames))

\* Math.min(100, Math.round((frameCount / maxFrames) * 100)).
Progress(frameCount) ==
    Min(100, (200 * frameCount + maxFrames) \div (2 * maxFrames))

\* The frame pushed by onseeked: its timestamp is the closure's currentTime,
\* its picture the one at the position sought.
CapturedFrame(s) ==
    [timestamp |-> s.currentTime, base64 |-> s.seeks[Len(s.seeks)]]

\* video.onseeked.
onseeked(s) ==
    IF s.ctx
    THEN captureFrame(
            [s EXCEPT !.frames = Append(@, CapturedFrame(s)),
                      !.frameCount = @ + 1,
                      !.currentTime = @ + interval,
                      !.progress = Append(@, Progress(s.frameCount + 1))])
    ELSE [s EXCEPT !.pc = "stopped",
                   !.promise = IF @ = "pending" THEN "rejected" ELSE @,
                   !.reason = IF s.promise = "pending"
                              THEN "Could not get canvas context" ELSE @]

\* video.onerror: before the metadata it rejects with an Error, afterwards
\* (the handler installed by onloadedmetadata) it revokes the object URL and
\* rejects with the event itself, which has no message.
\* An error handler that hands over the frames captured so far.
onerrorResolvingPartial(s) ==
    [s EXCEPT !.pc = "stopped",
              !.revoked = IF s.pc = "loading" THEN @ ELSE @ + 1,
              !.promise = IF @ = "pending" THEN "resolved" ELSE @]

onerror(s) ==
    [s EXCEPT !.pc = "stopped",
              !.revoked = IF s.pc = "loading" THEN @ ELSE @ + 1,
              !.promise = IF @ = "pending" THEN "rejected" ELSE @,
              !.reason = IF s.promise # "pending" THEN @
                         ELSE IF s.pc = "loading"
                              THEN "Failed to load video file" ELSE ""]

\* The frames the caller receives: the resolved value.
Resolved(s) == s.promise = "resolved"

(***************************************************************************)
(* formatTime(seconds).  The argument is given in ticks, so that times     *)
(* with a sub-second part can be passed.                                   *)
(***************************************************************************)
Digits == <<"0", "1", "2", "3", "4", "5", "6", "7", "8", "9">>

\* Number.prototype.toString of a non-negative integer.
RECURSIVE toString(_)
toString(n) ==
    IF n < 10 THEN Digits[n + 1]
    ELSE toString(n \div 10) \o Digits[(n % 10) + 1]

\* String.prototype.padStart with a one-character fill.
RECURSIVE padStart(_, _, _)
padStart(s, len, fill) ==
    IF Len(s) >= len THEN s ELSE padStart(fill \o s, len, fill)

NoFormat == [ticks |-> 0, out |-> None]

\* A rendering that rounds the seconds to the nearest whole second.
formatTimeRounded(ticks) ==
    LET mins == ticks \div (60 * TicksPerSecond)
        secs == (2 * (ticks % (60 * TicksPerSecond)) + TicksPerSecond)
                    \div (2 * TicksPerSecond)
    IN  padStart(toString(mins), 2, "0") \o ":" \o padStart(toString(secs), 2, "0")

formatTime(ticks) ==
    LET mins == ticks \div (60 * TicksPerSecond)
        secs == (ticks % (60 * TicksPerSecond)) \div TicksPerSecond
    IN  padStart(toString(mins), 2, "0") \o ":" \o padStart(toString(secs), 2, "0")

(***************************************************************************)
(* GeminiService.analyzeVideoFrames(frames, onFrameAnalyzed), as the part  *)
(* of a run record it owns:                                                *)
(*   i             the loop index (0-based), Len(frames) once the loop is  *)
(*                 over                                                    *)
(*   call          the withExponentialBackoff chain of the current call    *)
(*   frameResults  the local array                                         *)
(* History kept for the claims: callbacks (the arguments of the            *)
(* onFrameAnalyzed invocations, in order) and replies (the text each       *)
(* successful chat.sendMessage resolved with, in order).  A                *)
(* chat.sendMessage is in flight exactly while call.pc = "calling".        *)
(***************************************************************************)
Frames(run) == run.s.frames

\* The top of the for loop, or the statement after it: the next call is
\* wrapped in a retry chain of its own, whose fn issues chat.sendMessage.
\* One retry budget for the whole run: a call starts with what the call
\* before it left.
nextCallSharedBudget(run) ==
    [run EXCEPT !.pc = IF run.i < Len(Frames(run)) THEN "analyzing"
                       ELSE "reporting",
                !.call = IF run.call.pc = "none"
                         THEN withExponentialBackoff(defaultRetries, defaultDelay)
                         ELSE withExponentialBackoff(run.call.retries,
                                                     run.call.delay)]

nextCall(run) ==
    [run EXCEPT !.pc = IF run.i < Len(Frames(run)) THEN "analyzing"
                       ELSE "reporting",
                !.call = withExponentialBackoff(defaultRetries, defaultDelay)]

\* analyzeVideoFrames is called: chat is created, frameResults = [], i = 0.
analyzeVideoFrames(run) ==
    nextCall([run EXCEPT !.i = 0, !.frameResults = <<>>])

\* A frame result that carries the text as it came.
FrameResultRaw(run, text) ==
    [timestamp |-> formatTime(Frames(run)[run.i + 1].timestamp * TicksPerSecond),
     analysis |-> text]

\* The frame result built from the text of frame i's call.
FrameResult(run, text) ==
    [timestamp |-> formatTime(Frames(run)[run.i + 1].timestamp * TicksPerSecond),
     analysis |-> IF text = "" THEN "No analysis provided." ELSE text]

\* A loop that keeps its results to itself and hands them to onFrameAnalyzed
\* only when the last frame is done.
frameAnalyzedBuffered(run, text) ==
    nextCall(
        [run EXCEPT !.frameResults = Append(@, FrameResult(run, text)),
                    !.callbacks = IF run.i + 1 = Len(Frames(run))
                                  THEN Append(run.frameResults,
                                              FrameResult(run, text))
                                  ELSE @,
                    !.replies = Append(@, text),
                    !.i = @ + 1])

\* Frame i's chain returned text: push, onFrameAnalyzed, i++ and the next call.
frameAnalyzed(run, text) ==
    nextCall(
        [run EXCEPT !.frameResults = Append(@, FrameResult(run, text)),
                    !.callbacks = Append(@, FrameResult(run, text)),
                    !.replies = Append(@, text),
                    !.i = @ + 1])

\* A result that keeps the last frame's entry only.
AnalysisResultLastOnly(run, text) ==
    [frames |-> IF run.frameResults = <<>> THEN <<>>
                ELSE <<run.frameResults[Len(run.frameResults)]>>,
     finalReport |-> IF text = "" THEN "Could not generate final report."
                     ELSE text]

\* The value analyzeVideoFrames returns once the report chain returned text.
AnalysisResult(run, text) ==
    [frames |-> run.frameResults,
     finalReport |-> IF text = "" THEN "Could not generate final report."
                     ELSE text]

(***************************************************************************)
(* VideoAnalyzer.  video holds the component's state; runs[r] is the r-th  *)
(* invocation of handleAnalyze:                                            *)
(*   pc   "unused", "extracting" (awaiting extractFramesFromVideo),        *)
(*        "analyzing" / "reporting" (awaiting analyzeVideoFrames, in its   *)
(*        loop / in its final call), "complete", "failed"                  *)
(*   s    its extractFramesFromVideo                                       *)
(* and the analyzeVideoFrames fields above.  alone is history: no file was *)
(* selected and no other invocation was in flight since this one started.  *)
(* MaxRuns invocations can be in flight at once; a new invocation takes    *)
(* the record of one that has ended.                                       *)
(***************************************************************************)
IDLE == "IDLE"
EXTRACTING == "EXTRACTING"
ANALYZING == "ANALYZING"
COMPLETE == "COMPLETE"
ERROR == "ERROR"

RunIds == 1 .. MaxRuns

NoRun ==
    [pc |-> "unused", s |-> NoSampler, i |-> 0, call |-> NoCall,
     frameResults |-> <<>>, callbacks |-> <<>>, replies |-> <<>>,
     alone |-> FALSE]

NoRuns == [r \in RunIds |-> NoRun]

\* useState initial values.
NoVideo ==
    [file |-> None, status |-> IDLE, progress |-> 0, result |-> Null,
     currentFrameAnalysis |-> Null, error |-> None]

InFlight(run) == run.pc \in {"extracting", "analyzing", "reporting"}

\* err.message || "Failed to analyze video."
ErrorMessage(message) ==
    IF message = "" THEN "Failed to analyze video." ELSE message

\* A catch block that also withdraws what was shown so far.
catchErrorRetracting(v, message) ==
    [v EXCEPT !.error = ErrorMessage(message), !.status = ERROR,
              !.result = Null]

\* The catch block of handleAnalyze.
catchError(v, message) ==
    [v EXCEPT !.error = ErrorMessage(message), !.status = ERROR]

\* The callback handleAnalyze passes to analyzeVideoFrames.
onFrameAnalyzed(v, frameResult) ==
    [v EXCEPT !.currentFrameAnalysis = frameResult,
              !.result = [frames |-> Append(IF @ = Null THEN <<>> ELSE @.frames,
                                            frameResult),
                          finalReport |-> ""]]

\* The invocations of the callback made by one step of analyzeVideoFrames:
\* those of callbacks from position from + 1 on, in order.
RECURSIVE deliver(_, _, _)
deliver(v, callbacks, from) ==
    IF from >= Len(callbacks) THEN v
    ELSE deliver(onFrameAnalyzed(v, callbacks[from + 1]), callbacks, from + 1)

\* handleFileChange.  Inputs: a dialog closed without a file (None), a file
\* whose type is not video/*, a video file.
VideoFiles == {"clip.mp4"}
OtherFiles == {"notes.txt"}

\* A handler that also forgets the selection when the type is wrong.
handleFileChangeResetting(f) ==
    /\ f \in {None} \cup OtherFiles \cup VideoFiles
    /\ IF f = None THEN UNCHANGED <<video, runs>>
       ELSE IF f \notin VideoFiles
       THEN /\ video' = [video EXCEPT
                  !.file = None, !.status = IDLE, !.result = Null,
                  !.error = "Please upload a valid video file (MP4/WebM)."]
            /\ UNCHANGED runs
       ELSE /\ video' = [video EXCEPT !.file = f, !.error = None,
                  !.result = Null, !.currentFrameAnalysis = Null,
                  !.status = IDLE, !.progress = 0]
            /\ runs' = [r \in RunIds |-> [runs[r] EXCEPT !.alone = FALSE]]
    /\ UNCHANGED notVideo

handleFileChange(f) ==
    /\ f \in {None} \cup OtherFiles \cup VideoFiles
    /\ IF f = None THEN UNCHANGED <<video, runs>>
       ELSE IF f \notin VideoFiles
       THEN /\ video' = [video EXCEPT
                  !.error = "Please upload a valid video file (MP4/WebM)."]
            /\ UNCHANGED runs
       ELSE /\ video' = [video EXCEPT !.file = f, !.error = None,
                  !.result = Null, !.currentFrameAnalysis = Null,
                  !.status = IDLE, !.progress = 0]
            /\ runs' = [r \in RunIds |-> [runs[r] EXCEPT !.alone = FALSE]]
    /\ UNCHANGED notVideo

\* The durations of the videos analysed, in ticks: they yield
\* 1 .. MaxVideoFrames frames.
VideoDurations ==
    {k * interval * TicksPerSecond : k \in 0 .. (MaxVideoFrames - 1)}

\* The same with a duration below zero, which no media element reports: the
\* only input on which extractFramesFromVideo resolves with no frame.
AnyDurations == VideoDurations \cup {0 - 1}

\* The Start button is rendered.
StartVisible == video.file # None /\ video.status = IDLE

\* handleAnalyze up to its first await: the button was clicked.
handleAnalyze(r, d, c) ==
    /\ StartVisible
    /\ ~InFlight(runs[r])
    /\ \A q \in RunIds : q < r => InFlight(runs[q])
    /\ video' = [video EXCEPT !.error = None,
                     !.result = [frames |-> <<>>, finalReport |-> ""],
                     !.status = EXTRACTING, !.progress = 0]
    /\ runs' = [q \in RunIds |->
                  IF q = r
                  THEN [NoRun EXCEPT !.pc = "extracting",
                            !.s = extractFramesFromVideo(d, c),
                            !.alone = \A o \in RunIds : ~InFlight(runs[o])]
                  ELSE [runs[q] EXCEPT !.alone = FALSE]]
    /\ UNCHANGED notVideo

\* A check of the extracted frames that lets an empty list through.
NeverNoFrames(frames) == FALSE

\* frames.length === 0
NoFrames(frames) == Len(frames) = 0

\* handleAnalyze resumes after await extractFramesFromVideo, s being the
\* sampler after the event that settled or advanced it.
afterSamplerEvent(r, s) ==
    LET run == [runs[r] EXCEPT !.s = s]
        reported == IF Len(s.progress) > Len(runs[r].s.progress)
                    THEN [video EXCEPT !.progress = s.progress[Len(s.progress)]]
                    ELSE video
    IN  IF s.promise = "rejected"
        THEN /\ video' = catchError(reported, s.reason)
             /\ runs' = [runs EXCEPT ![r] = [run EXCEPT !.pc = "failed"]]
        ELSE IF s.promise = "resolved"
        THEN IF NoFrames(s.frames)
             THEN /\ video' = catchError(reported,
                         "Could not extract any frames from the video.")
                  /\ runs' = [runs EXCEPT ![r] = [run EXCEPT !.pc = "failed"]]
             ELSE /\ video' = [reported EXCEPT !.status = ANALYZING,
                                               !.progress = 0]
                  /\ runs' = [runs EXCEPT ![r] = analyzeVideoFrames(run)]
        ELSE /\ video' = reported
             /\ runs' = [runs EXCEPT ![r] = run]

RunLoadedMetadata(r) ==
    /\ runs[r].pc = "extracting"
    /\ runs[r].s.pc = "loading"
    /\ afterSamplerEvent(r, onloadedmetadata(runs[r].s))
    /\ UNCHANGED notVideo

RunSeeked(r) ==
    /\ runs[r].pc = "extracting"
    /\ runs[r].s.pc = "seeking"
    /\ afterSamplerEvent(r, onseeked(runs[r].s))
    /\ UNCHANGED notVideo

RunMediaError(r) ==
    /\ runs[r].pc = "extracting"
    /\ runs[r].s.pc \in {"loading", "seeking"}
    /\ afterSamplerEvent(r, onerror(runs[r].s))
    /\ UNCHANGED notVideo

\* The texts a chat.sendMessage resolves with ("" stands for no text) and
\* the messages of the errors it rejects with.
ReplyTexts == {"", "text"}
SendErrors == {"503 overloaded"}

\* The chat.sendMessage in flight resolved with text: the chain returns it.
SendMessageResolves(r, text) ==
    /\ runs[r].pc \in {"analyzing", "reporting"}
    /\ runs[r].call.pc = "calling"
    /\ LET run == [runs[r] EXCEPT !.call = fnResolved(@, text)]
       IN  IF runs[r].pc = "analyzing"
           THEN /\ video' = deliver(video, frameAnalyzed(run, text).callbacks,
                                    Len(run.callbacks))
                /\ runs' = [runs EXCEPT ![r] = frameAnalyzed(run, text)]
           ELSE /\ video' = [video EXCEPT !.result = AnalysisResult(run, text),
                                          !.status = COMPLETE]
                /\ runs' = [runs EXCEPT ![r] = [run EXCEPT !.pc = "complete",
                                 !.replies = Append(@, text)]]
    /\ UNCHANGED notVideo

\* The chat.sendMessage in flight rejected with e: the chain waits, or
\* rethrows to analyzeVideoFrames, which rethrows to handleAnalyze's catch.
SendMessageRejects(r, e) ==
    /\ runs[r].pc \in {"analyzing", "reporting"}
    /\ runs[r].call.pc = "calling"
    /\ LET c == fnRejected(runs[r].call, e)
       IN  IF c.pc = "thrown"
           THEN /\ video' = catchError(video, c.error)
                /\ runs' = [runs EXCEPT ![r] = [@ EXCEPT !.call = c,
                                                         !.pc = "failed"]]
           ELSE /\ runs' = [runs EXCEPT ![r] = [@ EXCEPT !.call = c]]
                /\ UNCHANGED video
    /\ UNCHANGED notVideo

\* The retry timer of the chain elapsed: fn is invoked again.
RetryTimerElapses(r) ==
    /\ runs[r].pc \in {"analyzing", "reporting"}
    /\ runs[r].call.pc = "waiting"
    /\ runs' = [runs EXCEPT ![r] = [@ EXCEPT !.call = timerElapsed(@)]]
    /\ UNCHANGED <<video, notVideo>>

(***************************************************************************)
(* The overlay colours.  ImageAnalyzer computes aggregatedObjects (a        *)
(* forEach over result.objects with the closure variables nameColorMap,    *)
(* colorCounter and counts) and colours each box by its object's name;     *)
(* WebcamAnalyzer colours each box by its position.  agg is one rendering: *)
(*   component   "image" or "webcam"                                       *)
(*   objects     result.objects                                            *)
(*   pos         the number of objects the forEach has visited             *)
(*   nameColorMap, counts   the two Records, as their entries in insertion *)
(*               order (the order of Object.entries for names that are not *)
(*               array indices)                                            *)
(*   overlay     the boxes drawn, in order: the name on the label, the     *)
(*               colour token and the style's top, left, height and width, *)
(*               percentages kept in tenths of a percent                   *)
(* Both Records start as {}: a lookup of a name that Object.prototype       *)
(* defines finds the inherited member, which is neither undefined nor      *)
(* falsy, although the Record has no entry of that name.                   *)
(***************************************************************************)
BOX_COLORS ==
    <<"#ef4444", "#f59e0b", "#10b981", "#3b82f6",
      "#8b5cf6", "#ec4899", "#06b6d4", "#f97316">>

WEBCAM_BOX_COLORS ==
    <<"#ef4444", "#f59e0b", "#10b981", "#3b82f6",
      "#8b5cf6", "#ec4899", "#06b6d4">>

NoAgg ==
    [component |-> "none", objects |-> <<>>, pos |-> 0, nameColorMap |-> <<>>,
     colorCounter |-> 0, counts |-> <<>>, overlay |-> <<>>, rendered |-> FALSE]

\* Members every object literal inherits from Object.prototype.
InheritedNames ==
    {"constructor", "hasOwnProperty", "isPrototypeOf", "propertyIsEnumerable",
     "toLocaleString", "toString", "valueOf"}

\* The Record has an entry of this name, and that entry.
Has(entries, name) == \E k \in 1 .. Len(entries) : entries[k].name = name
Get(entries, name) ==
    entries[CHOOSE k \in 1 .. Len(entries) : entries[k].name = name]

\* record[name] !== undefined, and the truthiness of record[name]: an own
\* entry (a number put there by the loop, or a counts object) or an
\* inherited member.
Defined(entries, name) == Has(entries, name) \/ name \in InheritedNames

\* One iteration of result.objects.forEach.  counts[name].count++ on an
\* inherited member changes no entry of counts.
forEachObject(a, obj) ==
    LET isNew == ~Defined(a.nameColorMap, obj.name)
        map == IF isNew
               THEN Append(a.nameColorMap,
                        [name |-> obj.name,
                         colorIndex |-> a.colorCounter % Len(BOX_COLORS)])
               ELSE a.nameColorMap
        created == IF Defined(a.counts, obj.name) THEN a.counts
                   ELSE Append(a.counts,
                            [name |-> obj.name, count |-> 0,
                             confidence |-> obj.confidence,
                             colorIndex |-> Get(map, obj.name).colorIndex])
    IN  [a EXCEPT !.pos = @ + 1,
                  !.nameColorMap = map,
                  !.colorCounter = IF isNew THEN @ + 1 ELSE @,
                  !.counts = [k \in 1 .. Len(created) |->
                                 IF created[k].name = obj.name
                                 THEN [created[k] EXCEPT !.count = @ + 1]
                                 ELSE created[k]]]

\* aggregatedObjects.find(a => a.name === obj.name)?.colorIndex || 0
ColorIndexOf(aggregatedObjects, name) ==
    IF Has(aggregatedObjects, name)
    THEN Get(aggregatedObjects, name).colorIndex
    ELSE 0

\* result.objects.map of ImageAnalyzer: one box per object.
\* The style of a box, const [ymin, xmin, ymax, xmax] = obj.box_2d:
\* top ymin / 10 %, left xmin / 10 %, height (ymax - ymin) / 10 %,
\* width (xmax - xmin) / 10 %, each as its number of tenths of a percent.
boxStyle(box_2d) ==
    [top |-> box_2d[1], left |-> box_2d[2],
     height |-> box_2d[3] - box_2d[1], width |-> box_2d[4] - box_2d[2]]

\* An overlay that draws one box per name, that of its first object.
imageOverlayMerged(a) ==
    LET firsts == {i \in 1 .. Len(a.objects) :
                      \A j \in 1 .. (i - 1) :
                          a.objects[j].name # a.objects[i].name}
        nth(k) == CHOOSE i \in firsts :
                      Cardinality({j \in firsts : j < i}) = k - 1
    IN  [k \in 1 .. Cardinality(firsts) |->
            [name |-> a.objects[nth(k)].name,
             color |-> BOX_COLORS[ColorIndexOf(a.counts,
                                               a.objects[nth(k)].name) + 1],
             style |-> boxStyle(a.objects[nth(k)].box_2d)]]

imageOverlay(a) ==
    [i \in 1 .. Len(a.objects) |->
        [name |-> a.objects[i].name,
         color |-> BOX_COLORS[ColorIndexOf(a.counts, a.objects[i].name) + 1],
         style |-> boxStyle(a.objects[i].box_2d)]]

\* aggregatedObjects and the overlay for a result: the forEach run to its
\* end, then the boxes.
RECURSIVE aggregated(_)
aggregated(a) ==
    IF a.pos < Len(a.objects)
    THEN aggregated(forEachObject(a, a.objects[a.pos + 1]))
    ELSE a

resultOverlay(result) ==
    imageOverlay(aggregated([NoAgg EXCEPT !.component = "image",
                                          !.objects = result.objects]))

\* result.objects.map of WebcamAnalyzer: BOX_COLORS[i % BOX_COLORS.length],
\* i counting from 0.
webcamOverlay(a) ==
    [i \in 1 .. Len(a.objects) |->
        [name |-> a.objects[i].name,
         color |-> WEBCAM_BOX_COLORS[((i - 1) % Len(WEBCAM_BOX_COLORS)) + 1],
         style |-> boxStyle(a.objects[i].box_2d)]]

(***************************************************************************)
(* GeminiService.analyzeImage and the ImageAnalyzer component.             *)
(*                                                                         *)
(* response.text is kept as what it is to the code that reads it: kind     *)
(* "empty" (undefined or ""), "invalid" (not JSON) or "json", and for JSON *)
(* the value the text denotes.  image is the component's state; an entry   *)
(* of imageRuns is one invocation of handleAnalyze:                        *)
(*   pc    "reading" (fileToBase64 pending), "analyzing" (analyzeImage     *)
(*         pending), "complete", "failed"                                  *)
(*   file  the file of the render the handler was created in               *)
(*   call  the retry chain of analyzeImage                                 *)
(***************************************************************************)
Confidences == {"High", "Medium", "Low"}

NoImage ==
    [file |-> None, preview |-> None, status |-> IDLE, result |-> Null,
     error |-> None]

NoImageRun == [pc |-> "unused", file |-> None, call |-> NoCall]

NoImageRuns == [r \in RunIds |-> NoImageRun]

ImageInFlight(run) == run.pc \in {"reading", "analyzing"}

EmptyText == [kind |-> "empty", value |-> Null]
InvalidText == [kind |-> "invalid", value |-> Null]
JsonText(value) == [kind |-> "json", value |-> value]

\* JSON.parse(response.text) as ImageAnalysisResult: the value the text
\* denotes, whatever it is, or a SyntaxError.
JSONparse(text) ==
    IF text.kind = "json"
    THEN [ok |-> TRUE, value |-> text.value, message |-> ""]
    ELSE [ok |-> FALSE, value |-> Null,
          message |-> "Unexpected token in JSON"]

\* The function analyzeImage passes to withExponentialBackoff, from the
\* settlement of generateContent on.
analyzeImageFn(text) ==
    IF text.kind = "empty"
    THEN [ok |-> FALSE, value |-> Null, message |-> "No response from Gemini"]
    ELSE JSONparse(text)

\* URL.createObjectURL(selectedFile)
createObjectURL(f) == "blob:" \o f

\* err.message || "Failed to analyze image. Please try again."
ImageErrorMessage(message) ==
    IF message = "" THEN "Failed to analyze image. Please try again."
    ELSE message

\* The catch block of ImageAnalyzer's handleAnalyze.
catchImageError(im, message) ==
    [im EXCEPT !.error = ImageErrorMessage(message), !.status = ERROR]

ImageFiles == {"photo.png"}

\* ImageAnalyzer's handleFileChange; f = None is a change event with no file.
handleImageFileChange(f) ==
    /\ f \in {None} \cup OtherFiles \cup ImageFiles
    /\ IF f = None THEN UNCHANGED image
       ELSE IF f \notin ImageFiles
       THEN image' = [image EXCEPT
                !.error = "Please upload a valid image file (JPEG/PNG)."]
       ELSE image' = [image EXCEPT !.file = f, !.preview = createObjectURL(f),
                !.error = None, !.result = Null, !.status = IDLE]
    /\ UNCHANGED <<imageRuns, notImage>>

\* The Analyze Image button is rendered.
AnalyzeVisible ==
    image.file # None /\ image.status \notin {COMPLETE, ANALYZING}

\* A click on Analyze Image: handleAnalyze up to await fileToBase64(file).
handleImageAnalyze(r) ==
    /\ AnalyzeVisible
    /\ ~ImageInFlight(imageRuns[r])
    /\ \A q \in RunIds : q < r => ImageInFlight(imageRuns[q])
    /\ image' = [image EXCEPT !.status = ANALYZING, !.error = None]
    /\ imageRuns' = [imageRuns EXCEPT ![r] =
                        [NoImageRun EXCEPT !.pc = "reading",
                                           !.file = image.file]]
    /\ UNCHANGED notImage

\* reader.onload: fileToBase64 resolves (reader.result is a string after
\* readAsDataURL), and handleAnalyze calls analyzeImage, which enters the
\* retry chain and issues generateContent.
readerLoaded(r) ==
    /\ imageRuns[r].pc = "reading"
    /\ imageRuns' = [imageRuns EXCEPT ![r] =
                        [@ EXCEPT !.pc = "analyzing",
                             !.call = withExponentialBackoff(defaultRetries,
                                                             defaultDelay)]]
    /\ UNCHANGED <<image, notImage>>

\* reader.onerror: fileToBase64 rejects with the event, which has no
\* message.
readerFailed(r) ==
    /\ imageRuns[r].pc = "reading"
    /\ image' = catchImageError(image, "")
    /\ imageRuns' = [imageRuns EXCEPT ![r] = [@ EXCEPT !.pc = "failed"]]
    /\ UNCHANGED notImage

\* An attempt of the chain of run r failed with e: the chain waits, or
\* rethrows to handleAnalyze's catch.
imageAttemptFailed(r, e) ==
    LET c == fnRejected(imageRuns[r].call, e)
    IN  IF c.pc = "thrown"
        THEN /\ image' = catchImageError(image, c.error)
             /\ imageRuns' = [imageRuns EXCEPT ![r] =
                                 [@ EXCEPT !.call = c, !.pc = "failed"]]
        ELSE /\ imageRuns' = [imageRuns EXCEPT ![r] = [@ EXCEPT !.call = c]]
             /\ UNCHANGED image

\* generateContent resolved with a response whose text is text.
generateContentResolved(r, text) ==
    /\ imageRuns[r].pc = "analyzing"
    /\ imageRuns[r].call.pc = "calling"
    /\ LET data == analyzeImageFn(text)
       IN  IF data.ok
           THEN /\ image' = [image EXCEPT !.result = data.value,
                                          !.status = COMPLETE]
                /\ imageRuns' = [imageRuns EXCEPT ![r] =
                       [@ EXCEPT !.pc = "complete",
                                 !.call = fnResolved(@, data.value)]]
           ELSE imageAttemptFailed(r, data.message)
    /\ UNCHANGED notImage

\* generateContent rejected with e.
generateContentRejected(r, e) ==
    /\ imageRuns[r].pc = "analyzing"
    /\ imageRuns[r].call.pc = "calling"
    /\ imageAttemptFailed(r, e)
    /\ UNCHANGED notImage

\* The retry timer of the chain elapsed: fn is invoked again.
imageRetryTimerElapsed(r) ==
    /\ imageRuns[r].pc = "analyzing"
    /\ imageRuns[r].call.pc = "waiting"
    /\ imageRuns' = [imageRuns EXCEPT ![r] = [@ EXCEPT !.call = timerElapsed(@)]]
    /\ UNCHANGED <<image, notImage>>

(***************************************************************************)
(* WebcamAnalyzer.  webcam holds the component: mounted, api (the browser  *)
(* has navigator.mediaDevices.getUserMedia), the useState values and       *)
(* streamRef.current (0 for null, else the number of a stream).  Once the  *)
(* component is unmounted its state setters do nothing; its refs are still *)
(* written.  videoRef.current is the video element, which is rendered      *)
(* while the component is mounted and capturedImage is null.               *)
(*                                                                         *)
(* streams[s] is "none" until getUserMedia hands stream s out, then "live" *)
(* until its tracks are stopped.  cams[c] is an invocation of startCamera: *)
(*   pc        "hd" / "basic" (awaiting the first / second getUserMedia),  *)
(*             "playing" (awaiting play()), "done", "failed"               *)
(*   requests  the getUserMedia requests issued, in order                  *)
(*   errors    the rejections caught, in order                             *)
(*   thrown    the error that reached the outer catch                      *)
(*   stream    the stream acquired                                         *)
(*   playFailed  play() rejected                                           *)
(* shot is the invocation of handleCapture with its analyzeImage chain.    *)
(***************************************************************************)
CamIds == 1 .. MaxCams
StreamIds == 1 .. MaxStreams

NoError == [name |-> "", message |-> ""]

NoWebcam ==
    [mounted |-> FALSE, api |-> TRUE, isStreaming |-> FALSE,
     capturedImage |-> None, isAnalyzing |-> FALSE, result |-> Null,
     error |-> None, permissionDenied |-> FALSE, streamRef |-> 0]

NoCam ==
    [pc |-> "unused", requests |-> <<>>, errors |-> <<>>, thrown |-> NoError,
     stream |-> 0, playFailed |-> FALSE]

NoCams == [c \in CamIds |-> NoCam]
NoStreams == [s \in StreamIds |-> "none"]
NoShot == [pc |-> "unused", call |-> NoCall]

CamPending(cam) == cam.pc \in {"hd", "basic", "playing"}

\* What a state setter called on w leaves of new: everything while the
\* component is mounted, only the ref afterwards.
commit(w, new) ==
    IF w.mounted THEN new ELSE [w EXCEPT !.streamRef = new.streamRef]

\* videoRef.current is not null.
videoRefCurrent(w) == w.mounted /\ w.capturedImage = None

\* stopCamera: the tracks of streamRef.current are stopped ...
stoppedStreams(w, st) ==
    IF w.streamRef # 0 THEN [st EXCEPT ![w.streamRef] = "stopped"] ELSE st

\* ... and streamRef.current = null, setIsStreaming(false).
stopCamera(w) ==
    commit(w, [w EXCEPT !.streamRef = 0, !.isStreaming = FALSE])

\* A catch block that reports nothing.
catchCameraErrorSilently(w, err) ==
    commit(w, [w EXCEPT !.isStreaming = FALSE])

\* The catch block of startCamera.
catchCameraError(w, err) ==
    commit(w,
        IF err.name \in {"NotAllowedError", "PermissionDeniedError"}
        THEN [w EXCEPT !.isStreaming = FALSE, !.permissionDenied = TRUE,
                 !.error = "Camera access was denied. Please allow camera access in your browser settings to continue."]
        ELSE IF err.name \in {"NotFoundError", "DevicesNotFoundError"}
        THEN [w EXCEPT !.isStreaming = FALSE,
                 !.error = "No camera found. Please ensure a camera is connected and recognized by your device."]
        ELSE IF err.name \in {"NotReadableError", "TrackStartError"}
        THEN [w EXCEPT !.isStreaming = FALSE,
                 !.error = "Camera is currently in use by another application or OS permission is blocked. Please close other apps using the camera."]
        ELSE [w EXCEPT !.isStreaming = FALSE,
                 !.error = IF err.message = "" THEN "Could not access camera."
                           ELSE err.message])

UnsupportedError ==
    [name |-> "Error",
     message |-> "Camera API is not supported in this browser or context."]

\* startCamera up to its first await: the component, the invocation and
\* the streams after it.
startCamera(w, st) ==
    LET w1 == commit(stopCamera(w),
                  [stopCamera(w) EXCEPT !.error = None,
                                        !.permissionDenied = FALSE])
    IN  IF ~w.api
        THEN [w |-> catchCameraError(w1, UnsupportedError),
              cam |-> [NoCam EXCEPT !.pc = "failed",
                                    !.thrown = UnsupportedError],
              streams |-> stoppedStreams(w, st)]
        ELSE [w |-> w1,
              cam |-> [NoCam EXCEPT !.pc = "hd", !.requests = <<"hd">>],
              streams |-> stoppedStreams(w, st)]

\* The invocation c of startCamera begins on component w.
startCameraAs(c, w) ==
    /\ ~CamPending(cams[c])
    /\ \A q \in CamIds : q < c => CamPending(cams[q])
    /\ LET r == startCamera(w, streams)
       IN  /\ webcam' = r.w
           /\ cams' = [cams EXCEPT ![c] = r.cam]
           /\ streams' = r.streams

\* A click on Retry Permission / Retry Camera, shown with the error.
retryCamera(c) ==
    /\ webcam.mounted
    /\ webcam.error # None
    /\ startCameraAs(c, webcam)
    /\ UNCHANGED <<shot, notWebcam>>

\* A click on Retake.
handleRetake(c) ==
    /\ webcam.mounted
    /\ webcam.capturedImage # None
    /\ ~webcam.isAnalyzing
    /\ startCameraAs(c, [webcam EXCEPT !.capturedImage = None,
                                       !.result = Null, !.error = None])
    /\ UNCHANGED <<shot, notWebcam>>

\* getUserMedia of invocation c resolved (never with null) with the stream
\* s: streamRef.current = stream, then play() when there is a video
\* element, setIsStreaming(true) otherwise.
getUserMediaResolved(c, s) ==
    /\ cams[c].pc \in {"hd", "basic"}
    /\ streams[s] = "none"
    /\ \A o \in StreamIds : o < s => streams[o] # "none"
    /\ streams' = [streams EXCEPT ![s] = "live"]
    /\ LET w == [webcam EXCEPT !.streamRef = s]
       IN  IF videoRefCurrent(webcam)
           THEN /\ webcam' = w
                /\ cams' = [cams EXCEPT ![c] =
                               [@ EXCEPT !.pc = "playing", !.stream = s]]
           ELSE /\ webcam' = commit(webcam, [w EXCEPT !.isStreaming = TRUE])
                /\ cams' = [cams EXCEPT ![c] =
                               [@ EXCEPT !.pc = "done", !.stream = s]]
    /\ UNCHANGED <<shot, notWebcam>>

\* An inner catch that rethrows what the first request failed with.
hdErrorRethrown(cam, basicError) == cam.errors[1]

\* throw basicError
basicErrorRethrown(cam, basicError) == basicError

\* getUserMedia of invocation c rejected with e: the first rejection issues
\* the request with video: true, the second is rethrown to the outer catch.
getUserMediaRejected(c, e) ==
    /\ cams[c].pc \in {"hd", "basic"}
    /\ IF cams[c].pc = "hd"
       THEN /\ cams' = [cams EXCEPT ![c] =
                           [@ EXCEPT !.pc = "basic",
                                     !.requests = Append(@, "basic"),
                                     !.errors = Append(@, e)]]
            /\ UNCHANGED webcam
       ELSE /\ cams' = [cams EXCEPT ![c] =
                           [@ EXCEPT !.pc = "failed",
                                     !.errors = Append(@, e),
                                     !.thrown = basicErrorRethrown(cams[c], e)]]
            /\ webcam' = catchCameraError(webcam,
                                          basicErrorRethrown(cams[c], e))
    /\ UNCHANGED <<streams, shot, notWebcam>>

\* play() of invocation c settled: a rejection is logged, and either way
\* setIsStreaming(true) follows.
playSettled(c, ok) ==
    /\ cams[c].pc = "playing"
    /\ cams' = [cams EXCEPT ![c] = [@ EXCEPT !.pc = "done",
                                             !.playFailed = ~ok]]
    /\ webcam' = commit(webcam, [webcam EXCEPT !.isStreaming = TRUE])
    /\ UNCHANGED <<streams, shot, notWebcam>>

\* err.message || "Failed to analyze snapshot."
SnapshotErrorMessage(message) ==
    IF message = "" THEN "Failed to analyze snapshot." ELSE message

\* The catch and finally blocks of handleCapture.
catchSnapshotError(w, message) ==
    commit(w, [w EXCEPT !.error = SnapshotErrorMessage(message),
                        !.isAnalyzing = FALSE])

\* A click on Take Snapshot (enabled while isStreaming): the frame is drawn
\* and encoded, the camera stopped and analyzeImage called; without a
\* canvas context the handler throws before any of it.
handleCapture(ctx) ==
    /\ webcam.mounted
    /\ webcam.capturedImage = None
    /\ webcam.isStreaming
    /\ IF ctx
       THEN /\ webcam' = [stopCamera(webcam) EXCEPT
                             !.capturedImage = "data:image/jpeg;base64,",
                             !.isAnalyzing = TRUE, !.error = None]
            /\ streams' = stoppedStreams(webcam, streams)
            /\ shot' = [pc |-> "analyzing",
                        call |-> withExponentialBackoff(defaultRetries,
                                                        defaultDelay)]
       ELSE /\ webcam' = catchSnapshotError(webcam,
                             "Could not create canvas context")
            /\ shot' = [NoShot EXCEPT !.pc = "failed"]
            /\ UNCHANGED streams
    /\ UNCHANGED <<cams, notWebcam>>

\* An attempt of the snapshot's chain failed with e.
snapshotAttemptFailed(e) ==
    LET c == fnRejected(shot.call, e)
    IN  IF c.pc = "thrown"
        THEN /\ webcam' = catchSnapshotError(webcam, c.error)
             /\ shot' = [pc |-> "failed", call |-> c]
        ELSE /\ shot' = [shot EXCEPT !.call = c]
             /\ UNCHANGED webcam

\* generateContent of the snapshot resolved with a response whose text is
\* text.
snapshotResponse(text) ==
    /\ shot.pc = "analyzing"
    /\ shot.call.pc = "calling"
    /\ LET data == analyzeImageFn(text)
       IN  IF data.ok
           THEN /\ webcam' = commit(webcam,
                                 [webcam EXCEPT !.result = data.value,
                                                !.isAnalyzing = FALSE])
                /\ shot' = [pc |-> "done",
                            call |-> fnResolved(shot.call, data.value)]
           ELSE snapshotAttemptFailed(data.message)
    /\ UNCHANGED <<cams, streams, notWebcam>>

\* generateContent of the snapshot rejected with e.
snapshotRequestFailed(e) ==
    /\ shot.pc = "analyzing"
    /\ shot.call.pc = "calling"
    /\ snapshotAttemptFailed(e)
    /\ UNCHANGED <<cams, streams, notWebcam>>

\* The retry timer of the snapshot's chain elapsed.
snapshotRetryTimerElapsed ==
    /\ shot.pc = "analyzing"
    /\ shot.call.pc = "waiting"
    /\ shot' = [shot EXCEPT !.call = timerElapsed(@)]
    /\ UNCHANGED <<webcam, cams, streams, notWebcam>>

\* The component unmounts (Back): the effect's cleanup calls stopCamera.
unmount ==
    /\ webcam.mounted
    /\ streams' = stoppedStreams(webcam, streams)
    /\ webcam' = [webcam EXCEPT !.mounted = FALSE, !.streamRef = 0]
    /\ UNCHANGED <<cams, shot, notWebcam>>

(***************************************************************************)
(* SpecRetry: a stand-alone withExponentialBackoff whose fn settles as the *)
(* environment chooses.                                                    *)
(***************************************************************************)
RestRetry == call = NoCall
RestSampler == sampler = NoSampler
RestVideo == video = NoVideo /\ runs = NoRuns
RestOverlay == agg = NoAgg
RestImage == image = NoImage /\ imageRuns = NoImageRuns
RestWebcam ==
    /\ webcam = NoWebcam /\ cams = NoCams
    /\ streams = NoStreams /\ shot = NoShot
RestFormat == fmt = NoFormat

RetryBudgets == (0 - 1) .. MaxRetries
InitialDelays == {1, defaultDelay}
FnValues == {"ok"}
FnErrors == {"e1", "e2"}

InitRetry ==
    /\ \E r \in RetryBudgets, d \in InitialDelays :
           call = withExponentialBackoff(r, d)
    /\ RestSampler /\ RestVideo /\ RestOverlay /\ RestImage /\ RestWebcam /\ RestFormat

FnResolves ==
    /\ call.pc = "calling"
    /\ \E v \in FnValues : call' = fnResolved(call, v)
    /\ UNCHANGED notRetry

FnRejects ==
    /\ call.pc = "calling"
    /\ \E e \in FnErrors : call' = fnRejected(call, e)
    /\ UNCHANGED notRetry

TimerElapses ==
    /\ call.pc = "waiting"
    /\ call' = timerElapsed(call)
    /\ UNCHANGED notRetry

NextRetry == FnResolves \/ FnRejects \/ TimerElapses

SpecRetry == InitRetry /\ [][NextRetry]_vars

\* The same where every attempt settles and every timer elapses.
SpecRetryFair == SpecRetry /\ WF_vars(NextRetry)

(***************************************************************************)
(* SpecSampler: one run of extractFramesFromVideo on a video of any        *)
(* duration up to MaxDuration.  A duration below zero is not one a media   *)
(* element reports; it is drawn because it is the only input on which the  *)
(* loop resolves with no frame.                                            *)
(***************************************************************************)
Durations == (0 - 1) .. MaxDuration

InitSampler ==
    /\ \E d \in Durations, c \in BOOLEAN :
           sampler = extractFramesFromVideo(d, c)
    /\ RestRetry /\ RestVideo /\ RestOverlay /\ RestImage /\ RestWebcam /\ RestFormat

LoadedMetadata ==
    /\ sampler.pc = "loading"
    /\ sampler' = onloadedmetadata(sampler)
    /\ UNCHANGED notSampler

Seeked ==
    /\ sampler.pc = "seeking"
    /\ sampler' = onseeked(sampler)
    /\ UNCHANGED notSampler

MediaError ==
    /\ sampler.pc \in {"loading", "seeking"}
    /\ sampler' = onerror(sampler)
    /\ UNCHANGED notSampler

NextSampler == LoadedMetadata \/ Seeked \/ MediaError

SpecSampler == InitSampler /\ [][NextSampler]_vars

\* The same where the media element answers: the load and every seek end in
\* their event or in an error event.
SpecSamplerFair == SpecSampler /\ WF_vars(NextSampler)

(***************************************************************************)
(* Spec: the VideoAnalyzer with the videos a media element can report.     *)
(***************************************************************************)
Init ==
    /\ video = NoVideo
    /\ runs = NoRuns
    /\ RestRetry /\ RestSampler /\ RestOverlay /\ RestImage /\ RestWebcam /\ RestFormat

SelectFile == \E f \in {None} \cup OtherFiles \cup VideoFiles : handleFileChange(f)
StartAnalysis ==
    \E r \in RunIds, d \in VideoDurations, c \in BOOLEAN : handleAnalyze(r, d, c)
MetadataLoads == \E r \in RunIds : RunLoadedMetadata(r)
SeekCompletes == \E r \in RunIds : RunSeeked(r)
MediaFails == \E r \in RunIds : RunMediaError(r)
ReplyArrives == \E r \in RunIds, text \in ReplyTexts : SendMessageResolves(r, text)
ReplyFails == \E r \in RunIds, e \in SendErrors : SendMessageRejects(r, e)
RetryFires == \E r \in RunIds : RetryTimerElapses(r)

Next ==
    \/ SelectFile
    \/ StartAnalysis
    \/ MetadataLoads
    \/ SeekCompletes
    \/ MediaFails
    \/ ReplyArrives
    \/ ReplyFails
    \/ RetryFires

Spec == Init /\ [][Next]_vars

(***************************************************************************)
(* SpecAnyDuration: the VideoAnalyzer with extractFramesFromVideo also     *)
(* resolving with an empty frame list.                                     *)
(***************************************************************************)
StartAnalysisAnyDuration ==
    \E r \in RunIds, d \in AnyDurations, c \in BOOLEAN : handleAnalyze(r, d, c)

NextAnyDuration ==
    \/ SelectFile
    \/ StartAnalysisAnyDuration
    \/ MetadataLoads
    \/ SeekCompletes
    \/ MediaFails
    \/ ReplyArrives
    \/ ReplyFails
    \/ RetryFires

SpecAnyDuration == Init /\ [][NextAnyDuration]_vars

(***************************************************************************)
(* SpecOverlay: the overlay of one result, drawn by either component.  The *)
(* result's objects carry one of NumNames names, "constructor" and n1, n2, *)
(* ...: every list of up to MaxObjects names, and lists of up to           *)
(* MaxLongObjects names that walk through the names from any start, one by *)
(* one, in steps of three, or staying twice on each.                       *)
(***************************************************************************)
Name(k) == IF k = 0 THEN "constructor" ELSE "n" \o toString(k)

Object(k) ==
    [name |-> Name(k), confidence |-> "High", box_2d |-> <<100, 200, 400, 600>>]

ShortLists == UNION {[1 .. n -> 0 .. (NumNames - 1)] : n \in 0 .. MaxObjects}

Walk(start, num, den, n) ==
    [i \in 1 .. n |-> (start + ((i - 1) * num) \div den) % NumNames]

LongLists ==
    {Walk(start, p[1], p[2], n) :
        start \in 0 .. (NumNames - 1),
        p \in {<<1, 1>>, <<3, 1>>, <<1, 2>>},
        n \in 0 .. MaxLongObjects}

ObjectLists ==
    {[i \in 1 .. Len(l) |-> Object(l[i])] : l \in ShortLists \cup LongLists}

InitOverlay ==
    /\ \E c \in {"image", "webcam"}, objects \in ObjectLists :
           agg = [NoAgg EXCEPT !.component = c, !.objects = objects]
    /\ RestRetry /\ RestSampler /\ RestVideo /\ RestImage /\ RestWebcam /\ RestFormat

\* ImageAnalyzer: the next iteration of the forEach of aggregatedObjects.
AggregateObject ==
    /\ agg.component = "image"
    /\ agg.pos < Len(agg.objects)
    /\ agg' = forEachObject(agg, agg.objects[agg.pos + 1])
    /\ UNCHANGED notOverlay

\* ImageAnalyzer: the boxes are drawn from aggregatedObjects.
RenderImageOverlay ==
    /\ agg.component = "image"
    /\ agg.pos = Len(agg.objects)
    /\ ~agg.rendered
    /\ agg' = [agg EXCEPT !.overlay = imageOverlay(agg), !.rendered = TRUE]
    /\ UNCHANGED notOverlay

\* WebcamAnalyzer: the boxes are drawn.
RenderWebcamOverlay ==
    /\ agg.component = "webcam"
    /\ ~agg.rendered
    /\ agg' = [agg EXCEPT !.overlay = webcamOverlay(agg), !.rendered = TRUE]
    /\ UNCHANGED notOverlay

NextOverlay == AggregateObject \/ RenderImageOverlay \/ RenderWebcamOverlay

SpecOverlay == InitOverlay /\ [][NextOverlay]_vars

(***************************************************************************)
(* SpecImage: the ImageAnalyzer with responses of up to MaxImageObjects     *)
(* objects, whose confidence is one of the three levels or "VeryHigh", and *)
(* whose box is well formed, or has ymin > ymax, or reaches beyond 1000.   *)
(***************************************************************************)
BadBoxes == {<<400, 200, 100, 600>>, <<100, 200, 400, 1200>>}

ImageObjects ==
    {[name |-> "cat", confidence |-> c, box_2d |-> <<100, 200, 400, 600>>] :
        c \in Confidences \cup {"VeryHigh"}}
    \cup {[name |-> "cat", confidence |-> "High", box_2d |-> b] : b \in BadBoxes}

ImageResults ==
    {[objects |-> objects, narrative |-> "A cat."] :
        objects \in UNION {[1 .. n -> ImageObjects] : n \in 0 .. MaxImageObjects}}

ResponseTexts ==
    {EmptyText, InvalidText} \cup {JsonText(value) : value \in ImageResults}

InitImage ==
    /\ image = NoImage
    /\ imageRuns = NoImageRuns
    /\ RestRetry /\ RestSampler /\ RestVideo /\ RestOverlay /\ RestWebcam /\ RestFormat

SelectImage == \E f \in {None} \cup OtherFiles \cup ImageFiles :
    handleImageFileChange(f)
StartImageAnalysis == \E r \in RunIds : handleImageAnalyze(r)
FileRead == \E r \in RunIds : readerLoaded(r)
FileReadFails == \E r \in RunIds : readerFailed(r)
ResponseArrives == \E r \in RunIds, text \in ResponseTexts :
    generateContentResolved(r, text)
RequestFails == \E r \in RunIds, e \in SendErrors :
    generateContentRejected(r, e)
ImageRetryFires == \E r \in RunIds : imageRetryTimerElapsed(r)

NextImage ==
    \/ SelectImage
    \/ StartImageAnalysis
    \/ FileRead
    \/ FileReadFails
    \/ ResponseArrives
    \/ RequestFails
    \/ ImageRetryFires

SpecImage == InitImage /\ [][NextImage]_vars

(***************************************************************************)
(* SpecApp: the App renders one analyzer at a time (mode), so either the   *)
(* VideoAnalyzer or the ImageAnalyzer is in use.                           *)
(***************************************************************************)
InitApp ==
    /\ video = NoVideo
    /\ runs = NoRuns
    /\ image = NoImage
    /\ imageRuns = NoImageRuns
    /\ RestRetry /\ RestSampler /\ RestOverlay /\ RestWebcam /\ RestFormat

VideoMode == RestImage
ImageMode == RestVideo

NextApp ==
    \/ VideoMode /\ Next
    \/ ImageMode /\ NextImage

SpecApp == InitApp /\ [][NextApp]_vars

(***************************************************************************)
(* SpecWebcam: the WebcamAnalyzer from its mount, in a browser with or      *)
(* without the camera API, with the failures getUserMedia reports.         *)
(***************************************************************************)
CameraErrors ==
    {[name |-> "NotAllowedError", message |-> "Permission denied"],
     [name |-> "NotFoundError", message |-> "Requested device not found"],
     [name |-> "NotReadableError", message |-> "Could not start video source"],
     [name |-> "OverconstrainedError", message |-> ""]}

SnapshotResult ==
    [objects |-> <<[name |-> "cat", confidence |-> "High",
                    box_2d |-> <<100, 200, 400, 600>>]>>,
     narrative |-> "A cat."]

SnapshotTexts == {JsonText(SnapshotResult)}

\* The failures of the request with the ideal resolution that are tried.
HdErrors ==
    {e \in CameraErrors :
        e.name \in {"NotAllowedError", "OverconstrainedError"}}

\* The component is mounted and its effect has called startCamera.
InitWebcam ==
    /\ \E api \in BOOLEAN :
           LET r == startCamera([NoWebcam EXCEPT !.mounted = TRUE,
                                                 !.api = api], NoStreams)
           IN  /\ webcam = r.w
               /\ cams = [NoCams EXCEPT ![1] = r.cam]
               /\ streams = r.streams
    /\ shot = NoShot
    /\ RestRetry /\ RestSampler /\ RestVideo /\ RestOverlay /\ RestImage /\ RestFormat

RetryCamera == \E c \in CamIds : retryCamera(c)
Retake == \E c \in CamIds : handleRetake(c)
StreamAcquired == \E c \in CamIds, s \in StreamIds : getUserMediaResolved(c, s)
StreamRefused ==
    \E c \in CamIds :
        \E e \in IF cams[c].pc = "hd" THEN HdErrors ELSE CameraErrors :
            getUserMediaRejected(c, e)
PlaySettles == \E c \in CamIds, ok \in BOOLEAN : playSettled(c, ok)
TakeSnapshot == \E ctx \in BOOLEAN : handleCapture(ctx)
SnapshotAnswered == \E text \in SnapshotTexts : snapshotResponse(text)
SnapshotRefused == \E e \in SendErrors : snapshotRequestFailed(e)
SnapshotRetryFires == snapshotRetryTimerElapsed
Unmount == unmount

NextWebcam ==
    \/ RetryCamera
    \/ Retake
    \/ StreamAcquired
    \/ StreamRefused
    \/ PlaySettles
    \/ TakeSnapshot
    \/ SnapshotAnswered
    \/ SnapshotRefused
    \/ SnapshotRetryFires
    \/ Unmount

SpecWebcam == InitWebcam /\ [][NextWebcam]_vars

(***************************************************************************)
(* SpecFormat: formatTime applied to every time of 0 .. MaxFormatTicks      *)
(* ticks and to some times of 100 minutes and more.                        *)
(***************************************************************************)
LongTimes == {6000, 6059, 36000, 359999}

FormatInputs ==
    (0 .. MaxFormatTicks)
        \cup {s * TicksPerSecond + h : s \in LongTimes, h \in {0, TicksPerSecond - 1}}

InitFormat ==
    /\ \E ticks \in FormatInputs : fmt = [ticks |-> ticks, out |-> None]
    /\ RestRetry /\ RestSampler /\ RestVideo /\ RestOverlay /\ RestImage
    /\ RestWebcam

Format ==
    /\ fmt.out = None
    /\ fmt' = [fmt EXCEPT !.out = formatTime(fmt.ticks)]
    /\ UNCHANGED notFormat

NextFormat == Format

SpecFormat == InitFormat /\ [][NextFormat]_vars

(***************************************************************************)
(* Claims about extractFramesFromVideo (SpecSampler).                      *)
(***************************************************************************)
\* C1: for every duration D >= 0 the resolved frame list has exactly
\* min(10, floor(D/3) + 1) frames and the i-th frame (from 0) has timestamp
\* 3*i; while sampling, the frames captured so far are a prefix of that list.
C1_FrameCountAndTimestamps ==
    sampler.duration >= 0 =>
        /\ \A i \in 1 .. Len(sampler.frames) :
               sampler.frames[i].timestamp = 3 * (i - 1)
        /\ Len(sampler.frames)
               <= Min(10, (sampler.duration \div (3 * TicksPerSecond)) + 1)
        /\ Resolved(sampler) =>
               Len(sampler.frames)
                   = Min(10, (sampler.duration \div (3 * TicksPerSecond)) + 1)

\* A run resolved for a video long enough for the cap of 10 frames to decide,
\* and a run resolved with the last sample exactly at the duration.
C1_Witness ==
    /\ Resolved(sampler)
    /\ Len(sampler.frames) = 10
    /\ sampler.duration \div (3 * TicksPerSecond) + 1 > 10

\* C13: onProgress is invoked once per captured frame, the k-th time with
\* round(100 * k / 10); the values never decrease, never exceed 100, and
\* 100 is reported only by the invocation after the 10th frame.
C13_ProgressPerFrame ==
    /\ Len(sampler.progress) = Len(sampler.frames)
    /\ \A k \in 1 .. Len(sampler.progress) :
           /\ sampler.progress[k] = (2 * 100 * k + 10) \div (2 * 10)
           /\ sampler.progress[k] <= 100
           /\ sampler.progress[k] = 100 => k = 10
           /\ k > 1 => sampler.progress[k - 1] <= sampler.progress[k]

\* A run that captured 10 frames and reported 100 after the last, and
\* nothing after it.
C13_Witness ==
    /\ Resolved(sampler)
    /\ Len(sampler.progress) = 10
    /\ sampler.progress[10] = 100
    /\ sampler.progress[9] = 90

\* The length of the frame list a duration of d ticks prescribes.
PrescribedFrames(d) == Min(10, (d \div (3 * TicksPerSecond)) + 1)

C14_Settled ==
    (Resolved(sampler) /\ sampler.duration >= 0) =>
        Len(sampler.frames) = PrescribedFrames(sampler.duration)

C14_Step ==
    /\ sampler.promise # "pending" => sampler'.promise = sampler.promise
    /\ (sampler.promise = "pending" /\ sampler'.pc = "stopped") =>
           \/ sampler'.promise = "rejected"
           \/ /\ sampler'.promise = "resolved"
              /\ sampler.duration >= 0 =>
                     Len(sampler'.frames) = PrescribedFrames(sampler.duration)

\* C14: sampling ends in a rejection or in the whole frame list the
\* duration prescribes, never in a shorter list; a settled promise stays as
\* it is, so that after a rejection the caller never receives the frames
\* captured before it.
C14_AllOrNothing == [](C14_Settled) /\ [][C14_Step]_vars

\* A seek failed after two frames were captured: the promise is rejected
\* with the event.
C14_Witness ==
    /\ sampler.promise = "rejected"
    /\ sampler.reason = ""
    /\ Len(sampler.frames) = 2
    /\ PrescribedFrames(sampler.duration) > 2

\* The seeks issued and not yet answered by a captured frame.
OutstandingSeeks(s) == Len(s.seeks) - Len(s.frames)

C23_State ==
    /\ OutstandingSeeks(sampler) \in {0, 1}
    /\ sampler.pc = "seeking" => OutstandingSeeks(sampler) = 1
    /\ \A i \in 1 .. Len(sampler.frames) :
           /\ sampler.frames[i].base64 = sampler.seeks[i]
           /\ sampler.frames[i].timestamp = sampler.seeks[i]

C23_Step ==
    Len(sampler'.seeks) # Len(sampler.seeks) =>
        /\ Len(sampler'.seeks) = Len(sampler.seeks) + 1
        /\ Len(sampler.seeks) > 0 =>
               /\ sampler.pc = "seeking"
               /\ Len(sampler'.frames) = Len(sampler.seeks)
               /\ sampler'.frames[Len(sampler.seeks)].base64
                      = sampler.seeks[Len(sampler.seeks)]

\* C23: at most one seek is outstanding; a seek after the first is issued
\* in the step that handles the seeked event of the one before it, when the
\* frame at the position sought has been appended to the frame list.
C23_OneSeekAtATime == [](C23_State) /\ [][C23_Step]_vars

\* The third seek is outstanding, two frames being captured.
C23_Witness ==
    /\ sampler.pc = "seeking"
    /\ Len(sampler.frames) = 2
    /\ sampler.seeks = <<0, 3, 6>>

\* The promise of extractFramesFromVideo has been resolved or rejected.
Settled(s) == s.promise \in {"resolved", "rejected"}

C32_State ==
    /\ Len(sampler.seeks) <= maxFrames
    /\ Settled(sampler) => sampler.pc = "stopped"

C32_Step ==
    Settled(sampler) =>
        /\ sampler'.promise = sampler.promise
        /\ sampler'.seeks = sampler.seeks
        /\ sampler'.frames = sampler.frames
        /\ sampler'.progress = sampler.progress

C32_Terminates == <>Settled(sampler)

C35_UrlRevokedOnce == Settled(sampler) => sampler.revoked = 1

(***************************************************************************)
(* Claims about withExponentialBackoff (SpecRetry).                        *)
(***************************************************************************)
\* C2: the k-th wait is exactly delay * 2^(k-1) ms with no cap, one wait per
\* failed attempt that had retries left, and each wait precedes the next
\* attempt; with retries = 3 and delay = 1000, failing 3 times and then
\* succeeding returns the success value after waits 1000, 2000, 4000.
C2_BackoffSchedule ==
    /\ \A k \in 1 .. Len(call.waits) :
           call.waits[k] = call.args[2] * Pow2(k - 1)
    /\ call.attempts = Len(call.waits) + 1
    /\ call.pc = "waiting" =>
           /\ Len(call.caught) = Len(call.waits) + 1
           /\ call.delay = call.args[2] * Pow2(Len(call.caught) - 1)
    /\ call.pc \in {"calling", "returned"} =>
           Len(call.caught) = Len(call.waits)
    /\ (call.args = <<3, 1000>> /\ call.pc = "returned"
            /\ Len(call.caught) = 3) =>
           /\ call.waits = <<1000, 2000, 4000>>
           /\ call.value \in FnValues

\* Budget 4, delay 1000: the fourth wait (8000 ms) is pending after waits of
\* 1000, 2000 and 4000 ms.
C2_Witness ==
    /\ call.args = <<4, 1000>>
    /\ call.pc = "waiting"
    /\ Len(call.caught) = 4

\* C3: the chain rejects only on a failure of the attempt made with zero
\* retries remaining, the (retries+1)-th; it rejects with exactly the error
\* that attempt threw, after all delays of the schedule have been waited.
C3_LastErrorPropagates ==
    call.pc = "thrown" =>
        /\ call.retries <= 0
        /\ Len(call.caught) = Max(call.args[1], 0) + 1
        /\ call.error = call.caught[Len(call.caught)]
        /\ call.value = None
        /\ Len(call.waits) = Max(call.args[1], 0)
        /\ \A k \in 1 .. Len(call.waits) :
               call.waits[k] = call.args[2] * Pow2(k - 1)

\* A chain that rejected after the whole default budget, its last error
\* differing from its first.
C3_Witness ==
    /\ call.pc = "thrown"
    /\ call.args = <<3, 1000>>
    /\ call.caught[1] # call.caught[Len(call.caught)]
    /\ call.error = call.caught[4]

C28_State ==
    /\ call.attempts <= Max(call.args[1], 0) + 1
    /\ call.pc = "thrown" =>
           /\ call.attempts = Max(call.args[1], 0) + 1
           /\ Len(call.caught) = call.attempts
    /\ call.args[1] <= 0 =>
           /\ call.attempts = 1
           /\ call.waits = <<>>
           /\ call.pc # "waiting"

C28_Step ==
    /\ call'.attempts # call.attempts =>
           /\ call.pc = "waiting"
           /\ call'.attempts = call.attempts + 1
    /\ call.pc = "returned" => call' = call

C28_Terminates == <>(call.pc \in {"returned", "thrown"})

\* C28: withExponentialBackoff(fn, retries, delay) invokes fn at most
\* max(retries, 0) + 1 times, and exactly that many before it throws; it
\* invokes fn again only after a failed attempt and its delay, never after
\* a success; with retries <= 0 it makes one attempt and waits for no timer;
\* and when every attempt settles and every timer elapses, it returns or
\* throws.
C28_BoundedAttempts ==
    [](C28_State) /\ [][C28_Step]_vars /\ C28_Terminates

\* A call with 2 retries has thrown after 3 attempts and 2 delays.
C28_Witness ==
    /\ call.pc = "thrown"
    /\ call.args[1] = 2
    /\ call.attempts = 3
    /\ Len(call.waits) = 2

(***************************************************************************)
(* Claims about analyzeVideoFrames and VideoAnalyzer (Spec).               *)
(***************************************************************************)
\* The frame result frame j (from 1) of a run must yield, given the text its
\* call returned.
ExpectedFrameResult(run, j) ==
    [timestamp |-> formatTime(Frames(run)[j].timestamp * TicksPerSecond),
     analysis |-> IF run.replies[j] = "" THEN "No analysis provided."
                  ELSE run.replies[j]]

\* The run is in analyzeVideoFrames, or has left it.
Analysing(run) == run.pc \in {"analyzing", "reporting", "complete"}

\* C4: in a run over frames f0..f(n-1) whose calls succeed, onFrameAnalyzed is
\* invoked once per frame, the i-th invocation with frame i's result; while
\* the call for frame i is pending (in flight or waiting to be retried)
\* exactly the invocations for frames 0..i-1 have been made, and while the
\* final-report call is pending, or once it has returned, all n have.
C4_CallbacksInOrder ==
    \A r \in RunIds :
        Analysing(runs[r]) =>
            /\ Len(runs[r].callbacks) = runs[r].i
            /\ runs[r].i <= Len(Frames(runs[r]))
            /\ \A j \in 1 .. Len(runs[r].callbacks) :
                   runs[r].callbacks[j] = ExpectedFrameResult(runs[r], j)
            /\ runs[r].pc = "analyzing" => runs[r].i < Len(Frames(runs[r]))
            /\ runs[r].pc \in {"reporting", "complete"} =>
                   Len(runs[r].callbacks) = Len(Frames(runs[r]))

\* A run over two frames has completed: two invocations, for 00:00 and
\* 00:03, the second with the text that stands for an empty reply.
C4_Witness ==
    \E r \in RunIds :
        /\ runs[r].pc = "complete"
        /\ Len(Frames(runs[r])) = 2
        /\ Len(runs[r].callbacks) = 2
        /\ runs[r].callbacks[1].timestamp = "00:00"
        /\ runs[r].callbacks[2].timestamp = "00:03"
        /\ runs[r].callbacks[2].analysis = "No analysis provided."
        /\ video.status = COMPLETE

\* The run failed inside analyzeVideoFrames: a call's retries were exhausted.
FailedInAnalysis(run) ==
    run.pc = "failed" /\ run.s.promise = "resolved" /\ ~NoFrames(Frames(run))

\* C5: when frame k's call exhausts its retries (4 attempts), the run has made
\* exactly the k invocations of onFrameAnalyzed for frames 0..k-1 and makes no
\* further one, no call is pending or issued afterwards, the failing step
\* sets status ERROR and an error message and leaves the displayed result as
\* it was; for a run not disturbed by a file selection or another run, the
\* displayed result then holds exactly those k analyses and an empty
\* finalReport.
C5_FailedState ==
    \A r \in RunIds :
        FailedInAnalysis(runs[r]) =>
            /\ runs[r].call.pc = "thrown"
            /\ runs[r].call.attempts = 4
            /\ Len(runs[r].callbacks) = runs[r].i
            /\ runs[r].alone =>
                   /\ video.status = ERROR
                   /\ video.error \notin {None, ""}
                   /\ video.result # Null
                   /\ video.result.frames = runs[r].callbacks
                   /\ video.result.finalReport = ""

C5_FailingStep ==
    \A r \in RunIds :
        /\ (~FailedInAnalysis(runs[r]) /\ FailedInAnalysis(runs'[r])) =>
               /\ video'.status = ERROR
               /\ video'.error \notin {None, ""}
               /\ video'.result = video.result
               /\ runs'[r].callbacks = runs[r].callbacks
        /\ (FailedInAnalysis(runs[r]) /\ runs'[r].pc = "failed") =>
               /\ runs'[r].callbacks = runs[r].callbacks
               /\ runs'[r].call = runs[r].call
               /\ runs'[r].i = runs[r].i

StatusSteps ==
    {<<IDLE, EXTRACTING>>, <<EXTRACTING, ANALYZING>>, <<ANALYZING, COMPLETE>>,
     <<EXTRACTING, ERROR>>, <<ANALYZING, ERROR>>}

C6_StatusMachine ==
    [][\/ video'.status = video.status
       \/ video'.status = IDLE
       \/ <<video.status, video'.status>> \in StatusSteps]_vars

\* The sampling of the run failed or yielded nothing.
FailedInSampling(run) ==
    \/ run.s.promise = "rejected"
    \/ run.s.promise = "resolved" /\ Len(run.s.frames) = 0

\* C7: a run whose sampling rejects or resolves with zero frames ends failed
\* without analyzeVideoFrames being invoked (no call was ever issued, no
\* callback made); the step in which sampling settles so sets status ERROR
\* and a non-empty error message, which stay until a file is selected or
\* another run is started.
C7_FailedState ==
    \A r \in RunIds :
        FailedInSampling(runs[r]) =>
            /\ runs[r].pc = "failed"
            /\ runs[r].call = NoCall
            /\ runs[r].callbacks = <<>>
            /\ runs[r].alone =>
                   /\ video.status = ERROR
                   /\ video.error \notin {None, ""}

C7_FailingStep ==
    \A r \in RunIds :
        (~FailedInSampling(runs[r]) /\ FailedInSampling(runs'[r])) =>
            /\ video'.status = ERROR
            /\ video'.error \notin {None, ""}

C7_SamplingFailureAborts == [](C7_FailedState) /\ [][C7_FailingStep]_vars

\* A run whose sampling resolved with no frame, undisturbed, shows ERROR and
\* the message of the empty-result check.
C7_Witness ==
    \E r \in RunIds :
        /\ runs[r].s.promise = "resolved"
        /\ Len(runs[r].s.frames) = 0
        /\ runs[r].pc = "failed"
        /\ runs[r].alone
        /\ video.status = ERROR
        /\ video.error = "Could not extract any frames from the video."

Calling(run) == run.pc \in {"analyzing", "reporting"}

\* The chain of the current call is one that started with 3 retries and
\* 1000 ms, and the local results are those of the frames before the current.
C15_OwnBudget ==
    \A r \in RunIds :
        Calling(runs[r]) =>
            /\ runs[r].call.args = <<3, 1000>>
            /\ runs[r].call.retries = 3 - Len(runs[r].call.waits)
            /\ runs[r].call.delay = 1000 * Pow2(Len(runs[r].call.waits))
            /\ Len(runs[r].frameResults) = runs[r].i

C15_Step ==
    \A r \in RunIds :
        LET a == runs[r]
            b == runs'[r]
        IN  Calling(a) =>
                /\ b.i \in {a.i, a.i + 1}
                /\ SubSeq(b.frameResults, 1, Len(a.frameResults))
                       = a.frameResults
                /\ b.i = a.i => b.frameResults = a.frameResults
                /\ (b.call.attempts > a.call.attempts) =>
                       /\ a.call.pc = "waiting"
                       /\ b.i = a.i /\ b.pc = a.pc
                /\ (b.i = a.i + 1 /\ Calling(b)) =>
                       /\ a.call.pc = "calling"
                       /\ b.call = withExponentialBackoff(3, 1000)

\* C15: every call of a video run has a retry chain of its own, of 3
\* retries from 1000 ms; a retry re-issues the request of the current frame
\* only (the loop index stays, it never goes back), and the results
\* obtained for the frames before it stay as they are.
C15_PerCallRetry == [](C15_OwnBudget) /\ [][C15_Step]_vars

\* The call of the second frame is in its second attempt, the first frame's
\* result being held.
C15_Witness ==
    \E r \in RunIds :
        /\ runs[r].pc = "analyzing"
        /\ runs[r].i = 1
        /\ runs[r].call.pc = "calling"
        /\ runs[r].call.attempts = 2
        /\ Len(runs[r].frameResults) = 1

\* C16: the report call is issued only when every frame has its result, in
\* a retry chain of its own; and whenever the status shown is not COMPLETE,
\* the result shown has an empty finalReport (or there is no result).
C16_ReportOnlyWhenComplete ==
    /\ \A r \in RunIds :
           runs[r].pc = "reporting" =>
               /\ Len(runs[r].frameResults) = Len(Frames(runs[r]))
               /\ runs[r].call.args = <<3, 1000>>
    /\ video.status # COMPLETE =>
           \/ video.result = Null
           \/ video.result.finalReport = ""

\* A step of invocation r itself: its record changes in more than the
\* history flag.
OwnStep(r) == [runs'[r] EXCEPT !.alone = runs[r].alone] # runs[r]

\* Status IDLE with an invocation in flight: a file was selected after the
\* invocation started, which now belongs to an earlier selection.
C17_Step ==
    \A r \in RunIds :
        (InFlight(runs[r]) /\ video.status = IDLE /\ OwnStep(r)) =>
            video' = video

\* C17: after a file has been selected while a run is in flight, no step of
\* that run (a progress report, a frame callback, its completion, its
\* failure) changes what the component shows.
C17_StaleRunIsolated == [][C17_Step]_vars

C22_State ==
    \A r \in RunIds :
        LET s == runs[r].s
        IN  /\ (Resolved(s) /\ Len(s.frames) = 0) =>
                   /\ s.duration <= 0
                   /\ runs[r].pc = "failed"
                   /\ runs[r].call = NoCall
                   /\ runs[r].callbacks = <<>>
            /\ (Resolved(s) /\ s.duration > 0) =>
                   /\ Len(s.frames) >= 1
                   /\ s.frames[1].timestamp = 0

C22_Step ==
    \A r \in RunIds :
        (~Resolved(runs[r].s) /\ Resolved(runs'[r].s)
             /\ Len(runs'[r].s.frames) = 0) =>
            /\ video'.status = ERROR
            /\ video'.error = "Could not extract any frames from the video."

\* C22: sampling resolves with no frame only for a duration <= 0, and with
\* the frame of timestamp 0 first for every duration > 0; a run whose
\* sampling resolved with no frame fails (status ERROR, a message) and
\* issues no analysis call.
C22_EmptyOnlyWithoutDuration == [](C22_State) /\ [][C22_Step]_vars

\* A run whose video reported a duration below zero: no frame, the run
\* failed, the failure is shown.
C22_Witness ==
    \E r \in RunIds :
        /\ Resolved(runs[r].s)
        /\ runs[r].s.duration < 0
        /\ Len(runs[r].s.frames) = 0
        /\ runs[r].pc = "failed"
        /\ video.status = ERROR
        /\ video.error = "Could not extract any frames from the video."

\* The invocations of fn (each one chat.sendMessage) of a chain that have
\* not settled: those made, less those that threw and the one that returned.
InFlightSends(c) ==
    c.attempts - Len(c.caught) - (IF c.pc = "returned" THEN 1 ELSE 0)

C24_State ==
    \A r \in RunIds :
        Calling(runs[r]) =>
            /\ InFlightSends(runs[r].call) \in {0, 1}
            /\ InFlightSends(runs[r].call) = 1 <=> runs[r].call.pc = "calling"
            /\ Len(runs[r].replies) = runs[r].i

\* A step after which a sendMessage of the run is in flight that was not
\* before: the first call, the call after a successful one, or a retry.
C24_Step ==
    \A r \in RunIds :
        LET a == runs[r]
            b == runs'[r]
        IN  (/\ Calling(b)
             /\ b.call.pc = "calling"
             /\ \/ a.pc # b.pc
                \/ a.i # b.i
                \/ a.call.attempts # b.call.attempts) =>
                \/ /\ a.pc = "extracting"
                   /\ b.i = 0
                   /\ b.call.attempts = 1
                \/ /\ a.pc = "analyzing"
                   /\ a.call.pc = "calling"
                   /\ b.i = a.i + 1
                   /\ Len(b.replies) = Len(a.replies) + 1
                   /\ b.call.attempts = 1
                \/ /\ Calling(a)
                   /\ a.call.pc = "waiting"
                   /\ b.pc = a.pc
                   /\ b.i = a.i
                   /\ b.call.attempts = a.call.attempts + 1
                   /\ b.call.waits = Append(a.call.waits, a.call.delay)

\* C24: within one run at most one chat.sendMessage is in flight, retries
\* included; the call for the next frame or for the report is issued in the
\* step in which the call before it returned its text, and a retry is issued
\* only from a chain whose attempt has failed, when its delay has elapsed.
C24_OneSendAtATime == [](C24_State) /\ [][C24_Step]_vars

\* The report call of a run over two frames is in its second attempt.
C24_Witness ==
    \E r \in RunIds :
        /\ runs[r].pc = "reporting"
        /\ runs[r].i = 2
        /\ runs[r].call.pc = "calling"
        /\ runs[r].call.attempts = 2
        /\ runs[r].call.waits = <<1000>>

\* s is a prefix of t.
IsPrefix(s, t) == Len(s) <= Len(t) /\ SubSeq(t, 1, Len(s)) = s

\* The entries emitted so far are the local results so far.
C25_State ==
    \A r \in RunIds :
        Analysing(runs[r]) => runs[r].callbacks = runs[r].frameResults

C25_Step ==
    \A r \in RunIds :
        LET a == runs[r]
            b == runs'[r]
        IN  /\ (Analysing(a) /\ Analysing(b)) =>
                   /\ IsPrefix(a.callbacks, b.callbacks)
                   /\ Len(b.callbacks) <= Len(a.callbacks) + 1
            /\ (a.pc = "reporting" /\ b.pc = "complete") =>
                   /\ Len(video'.result.frames) = Len(Frames(a))
                   /\ \A j \in 1 .. Len(Frames(a)) :
                          video'.result.frames[j] = ExpectedFrameResult(b, j)
                   /\ video'.result.frames = b.callbacks
                   /\ IsPrefix(a.callbacks, video'.result.frames)

\* C25: the value a successful analyzeVideoFrames returns (the result set in
\* the step that completes the run) has one entry per input frame, in order,
\* the j-th with formatTime of the j-th frame's timestamp; it is the
\* sequence handed to onFrameAnalyzed, which only ever grew by one entry at
\* its end, so that what was emitted at any moment is a prefix of it.
C25_ResultIsCallbacks == [](C25_State) /\ [][C25_Step]_vars

\* A run over two frames has completed and its result, with both entries,
\* is the one shown.
C25_Witness ==
    \E r \in RunIds :
        /\ runs[r].pc = "complete"
        /\ Len(Frames(runs[r])) = 2
        /\ video.result # Null
        /\ video.result.frames = runs[r].callbacks
        /\ Len(video.result.frames) = 2
        /\ video.result.frames[2].timestamp = "00:03"

\* What an empty reply text is replaced by, and any other text is not.
OrPlaceholder(text, placeholder) == IF text = "" THEN placeholder ELSE text

C33_State ==
    /\ \A r \in RunIds :
           /\ \A j \in 1 .. Len(runs[r].callbacks) :
                  /\ runs[r].callbacks[j].analysis # ""
                  /\ runs[r].callbacks[j].analysis
                         = OrPlaceholder(runs[r].replies[j],
                                         "No analysis provided.")
           /\ \A k \in 1 .. Len(runs[r].call.caught) :
                  runs[r].call.caught[k] \in SendErrors
    /\ \A r \in RunIds :
           LET c == imageRuns[r].call
           IN  /\ c.pc = "thrown" => Len(c.caught) = defaultRetries + 1
               /\ c.pc = "waiting" => Len(c.caught) = Len(c.waits) + 1
               /\ c.pc = "returned" => c.value # Null

\* A reply of the video run arrives: it ends its call with a success, the
\* frame's entry or the report carrying the text or its placeholder.
C33_Step ==
    \A r \in RunIds :
        LET a == runs[r]
            b == runs'[r]
            text == b.replies[Len(b.replies)]
        IN  Len(b.replies) = Len(a.replies) + 1 =>
                IF a.pc = "analyzing"
                THEN /\ b.i = a.i + 1
                     /\ Len(b.callbacks) = Len(a.callbacks) + 1
                     /\ b.call = withExponentialBackoff(defaultRetries,
                                                        defaultDelay)
                ELSE /\ b.pc = "complete"
                     /\ b.call.pc = "returned"
                     /\ b.call.caught = a.call.caught
                     /\ video'.result.finalReport # ""
                     /\ video'.result.finalReport
                            = OrPlaceholder(text,
                                  "Could not generate final report.")

\* C33: every entry analyzeVideoFrames emits has a non-empty analysis and
\* every report it returns is non-empty: an empty reply text is replaced by
\* the placeholder, its call succeeds and is not retried.  In analyzeImage
\* an empty response text is a failure of the attempt: the chain throws only
\* when 4 attempts have failed, and returns a parsed value only.
C33_EmptyTextHandling == [](C33_State) /\ [][C33_Step]_vars

\* A video run whose three replies were all empty has completed with no
\* retry: two placeholder entries and the placeholder report.
C33_Witness ==
    \E r \in RunIds :
        /\ runs[r].pc = "complete"
        /\ runs[r].replies = <<"", "", "">>
        /\ runs[r].call.attempts = 1
        /\ runs[r].callbacks[2].analysis = "No analysis provided."
        /\ video.result # Null
        /\ video.result.finalReport = "Could not generate final report."

(***************************************************************************)
(* Claims about the overlay colours (SpecOverlay).                         *)
(***************************************************************************)
\* C8: in every overlay drawn, of the uploaded image and of the webcam
\* snapshot, two boxes whose objects have the same name have the same colour.
C8_SameNameSameColor ==
    agg.rendered =>
        \A i, j \in 1 .. Len(agg.overlay) :
            agg.objects[i].name = agg.objects[j].name =>
                agg.overlay[i].color = agg.overlay[j].color

\* The same for the overlay of ImageAnalyzer alone.
C8_ImageSameNameSameColor == agg.component = "image" => C8_SameNameSameColor

\* The number of distinct names that occur before the first occurrence of
\* the name of object i.
FirstOccurrenceRank(objects, i) ==
    LET first == CHOOSE k \in 1 .. i :
                     /\ objects[k].name = objects[i].name
                     /\ \A m \in 1 .. (k - 1) : objects[m].name # objects[i].name
    IN  Cardinality({objects[m].name : m \in 1 .. (first - 1)})

DistinctNames(objects) == {objects[m].name : m \in 1 .. Len(objects)}

\* C9: in ImageAnalyzer the j-th distinct name in first-occurrence order
\* (j from 0) is drawn with palette entry j mod 8 of a palette of 8 distinct
\* tokens, so the 9th distinct name reuses entry 0, and with at most 8
\* distinct names two different names have different colours.
C9_FirstOccurrencePalette ==
    (agg.component = "image" /\ agg.rendered) =>
        /\ Len(BOX_COLORS) = 8
        /\ Len(agg.overlay) = Len(agg.objects)
        /\ \A i \in 1 .. Len(agg.overlay) :
               agg.overlay[i].color
                   = BOX_COLORS[(FirstOccurrenceRank(agg.objects, i) % 8) + 1]
        /\ Cardinality(DistinctNames(agg.objects)) <= 8 =>
               \A i, j \in 1 .. Len(agg.overlay) :
                   agg.objects[i].name # agg.objects[j].name =>
                       agg.overlay[i].color # agg.overlay[j].color

\* The same for the results none of whose names Object.prototype defines.
C9_OwnNamesOnly ==
    (DistinctNames(agg.objects) \cap InheritedNames = {}) =>
        C9_FirstOccurrencePalette

\* C26: the overlay drawn from a result, in ImageAnalyzer and in
\* WebcamAnalyzer, has one box per element of result.objects, in the same
\* order, each labelled and placed by its own object: objects with the same
\* name or the same box are neither merged nor dropped.
C26_OneBoxPerObject ==
    agg.rendered =>
        /\ Len(agg.overlay) = Len(agg.objects)
        /\ \A i \in 1 .. Len(agg.objects) :
               /\ agg.overlay[i].name = agg.objects[i].name
               /\ agg.overlay[i].style = boxStyle(agg.objects[i].box_2d)

\* An ImageAnalyzer overlay of three boxes, the first two for objects of
\* the same name and the same box.
C26_Witness ==
    /\ agg.component = "image"
    /\ agg.rendered
    /\ Len(agg.objects) = 3
    /\ agg.objects[1] = agg.objects[2]
    /\ agg.objects[3].name # agg.objects[1].name
    /\ Len(agg.overlay) = 3
    /\ agg.overlay[1].style = agg.overlay[2].style

(***************************************************************************)
(* Claims about analyzeImage and the ImageAnalyzer (SpecImage).            *)
(***************************************************************************)
ValidConfidences(result) ==
    \A i \in 1 .. Len(result.objects) :
        result.objects[i].confidence \in {"High", "Medium", "Low"}

\* C10: analyzeImage never returns, and the ImageAnalyzer never displays, a
\* result with an object whose confidence is not High, Medium or Low: a
\* response with such an object makes analyzeImage fail.
C10_InvalidConfidenceRejected ==
    /\ image.result # Null => ValidConfidences(image.result)
    /\ \A r \in RunIds :
           imageRuns[r].call.pc = "returned" =>
               ValidConfidences(imageRuns[r].call.value)

\* The style of a box lies within the image: no negative height or width,
\* and the box between 0 and 100 percent on both axes.
WithinImage(style) ==
    /\ style.height >= 0 /\ style.width >= 0
    /\ style.top >= 0 /\ style.left >= 0
    /\ style.top + style.height <= 1000
    /\ style.left + style.width <= 1000

\* C11: no result that analyzeImage returned, and the ImageAnalyzer shows,
\* yields an overlay box of negative height or width or outside 0..100
\* percent: a response with such a box makes analyzeImage fail.
C11_MalformedBoxRejected ==
    image.result # Null =>
        \A i \in 1 .. Len(resultOverlay(image.result)) :
            WithinImage(resultOverlay(image.result)[i].style)

\* The errors analyzeImage's wrapped function raises itself: an empty
\* response and a response that does not parse.
ResponseErrors == {"No response from Gemini", "Unexpected token in JSON"}

\* C12: an error raised inside the wrapped operation that is not a failure
\* of the inference call (an empty response, a response that does not
\* parse) ends the chain at once: it is the last error caught, the chain
\* has thrown, and no wait and no further attempt follows it.
C12_OnlyTransientRetried ==
    \A r \in RunIds :
        LET c == imageRuns[r].call
        IN  \A k \in 1 .. Len(c.caught) :
                c.caught[k] \in ResponseErrors =>
                    /\ c.pc = "thrown"
                    /\ k = Len(c.caught)
                    /\ Len(c.waits) = k - 1
                    /\ c.attempts = k

(***************************************************************************)
(* Claims about the WebcamAnalyzer (SpecWebcam).                           *)
(***************************************************************************)
\* C18: once the component is unmounted and no startCamera invocation is
\* pending any more, no stream handed out is still live.
C18_NoStreamAfterUnmount ==
    (~webcam.mounted /\ \A c \in CamIds : ~CamPending(cams[c])) =>
        \A s \in StreamIds : streams[s] # "live"

\* The message shown for a camera error of this name and message.
ShownCameraError(err) ==
    IF err.name = "NotAllowedError"
    THEN "Camera access was denied. Please allow camera access in your browser settings to continue."
    ELSE IF err.name = "NotFoundError"
    THEN "No camera found. Please ensure a camera is connected and recognized by your device."
    ELSE IF err.name = "NotReadableError"
    THEN "Camera is currently in use by another application or OS permission is blocked. Please close other apps using the camera."
    ELSE IF err.message = "" THEN "Could not access camera."
    ELSE err.message

C19_Requests ==
    \A c \in CamIds :
        /\ cams[c].requests \in {<<>>, <<"hd">>, <<"hd", "basic">>}
        /\ cams[c].requests = <<"hd", "basic">> => Len(cams[c].errors) >= 1
        /\ cams[c].stream # 0 => Len(cams[c].requests) = Len(cams[c].errors) + 1
        /\ (cams[c].pc = "failed" /\ cams[c].requests # <<>>) =>
               /\ Len(cams[c].errors) = 2
               /\ cams[c].thrown = cams[c].errors[2]

C19_Step ==
    \A c \in CamIds :
        /\ (cams[c].stream # 0 /\ cams'[c].stream = cams[c].stream) =>
               cams'[c].requests = cams[c].requests
        /\ (cams[c].pc = "basic" /\ cams'[c].pc = "failed" /\ webcam.mounted) =>
               /\ webcam'.error = ShownCameraError(cams'[c].errors[2])
               /\ webcam'.permissionDenied =
                      (webcam.permissionDenied
                           \/ cams'[c].errors[2].name = "NotAllowedError")

\* C19: the request with the ideal resolution comes first and the
\* unconstrained one only after the first was rejected, never after a
\* stream was acquired; when both are rejected, the error classified and
\* shown is the second's.
C19_FallbackOrder == [](C19_Requests) /\ [][C19_Step]_vars

\* Both requests were rejected, with different errors, and the message of
\* the second is shown.
C19_Witness ==
    \E c \in CamIds :
        /\ cams[c].pc = "failed"
        /\ Len(cams[c].errors) = 2
        /\ cams[c].errors[1].name = "NotAllowedError"
        /\ cams[c].errors[2].name = "NotFoundError"
        /\ webcam.mounted
        /\ webcam.error = ShownCameraError(cams[c].errors[2])
        /\ ~webcam.permissionDenied

C20_Step ==
    \A c \in CamIds :
        webcam.mounted =>
            /\ (CamPending(cams[c]) /\ cams'[c].pc = "failed") =>
                   /\ webcam'.error # None
                   /\ ~webcam'.isStreaming
            /\ (cams[c].pc = "playing" /\ cams'[c].playFailed) =>
                   /\ webcam'.error # None
                   /\ ~webcam'.isStreaming

\* C20: a step in which the camera acquisition or the start of the
\* playback fails leaves an error message set and isStreaming false.
C20_NoFailureSwallowed == [][C20_Step]_vars

(***************************************************************************)
(* Claims about formatTime (SpecFormat).                                   *)
(***************************************************************************)
DecimalDigit(d) ==
    CASE d = 0 -> "0" [] d = 1 -> "1" [] d = 2 -> "2" [] d = 3 -> "3"
      [] d = 4 -> "4" [] d = 5 -> "5" [] d = 6 -> "6" [] d = 7 -> "7"
      [] d = 8 -> "8" [] d = 9 -> "9"

\* The decimal numeral of n with at least two digits.
RECURSIVE TwoDigits(_)
TwoDigits(n) ==
    IF n < 100 THEN DecimalDigit(n \div 10) \o DecimalDigit(n % 10)
    ELSE LET head == TwoDigits(n \div 10)
         IN  (IF n \div 10 < 10 THEN DecimalDigit(n \div 10) ELSE head)
                 \o DecimalDigit(n % 10)

\* The whole seconds of a time given in ticks.
WholeSeconds(ticks) == ticks \div TicksPerSecond

\* C21: formatTime(s) is floor(s / 60) and floor(s mod 60), each with at
\* least two digits, joined by ":"; the part below a second is dropped and
\* the minutes run on beyond 59.
C21_FormatTime ==
    fmt.out # None =>
        /\ fmt.out = TwoDigits(WholeSeconds(fmt.ticks) \div 60) \o ":"
                         \o TwoDigits(WholeSeconds(fmt.ticks) % 60)
        /\ WholeSeconds(fmt.ticks) = 185 => fmt.out = "03:05"
        /\ WholeSeconds(fmt.ticks) = 59 => fmt.out = "00:59"
        /\ WholeSeconds(fmt.ticks) = 0 => fmt.out = "00:00"
        /\ WholeSeconds(fmt.ticks) = 3600 => fmt.out = "60:00"

\* A time with a part below a second, of 60 minutes: "60:00".
C21_Witness ==
    /\ fmt.out = "60:00"
    /\ fmt.ticks = 3600 * TicksPerSecond + (TicksPerSecond - 1)
    /\ TicksPerSecond > 1

\* The message shown for a refused permission.
DeniedMessage ==
    "Camera access was denied. Please allow camera access in your browser settings to continue."

\* C27: the retry-permission action is offered (permissionDenied is true)
\* exactly when the failure shown is a refused permission; with any other
\* failure shown (no device, device busy, unsupported API, failed analysis),
\* and with none, permissionDenied is false.
C27_RetryPermissionOnlyWhenDenied ==
    webcam.permissionDenied <=> webcam.error = DeniedMessage

\* The invocations of handleAnalyze of the ImageAnalyzer that have not ended.
ImagesInFlight == {r \in RunIds : ImageInFlight(imageRuns[r])}

\* Status IDLE with an invocation in flight: a file was selected after the
\* invocation started, so that its result is not of the file now selected.
C29_Step ==
    \A r \in RunIds :
        (/\ ImageInFlight(imageRuns[r])
         /\ image.status = IDLE
         /\ imageRuns'[r] # imageRuns[r]) =>
            /\ image'.result = image.result
            /\ image'.status = image.status

\* C29: at most one analysis of the ImageAnalyzer is in flight, and once a
\* file has been selected while an analysis is in flight, no step of that
\* analysis sets result or status.
C29_ResultOfSelectedFile ==
    [](Cardinality(ImagesInFlight) <= 1) /\ [][C29_Step]_vars

\* C30: no camera stream is held while a snapshot is displayed: whenever
\* capturedImage is set, streamRef.current is null and isStreaming is false.
C30_NoStreamWithSnapshot ==
    webcam.capturedImage # None =>
        /\ webcam.streamRef = 0
        /\ ~webcam.isStreaming

\* C31: while the component is mounted, isStreaming is true only while
\* streamRef.current holds a stream
\* whose tracks have not been stopped, so that Take Snapshot is enabled only
\* with a held stream.
C31_StreamingHoldsStream ==
    (webcam.mounted /\ webcam.isStreaming) =>
        /\ webcam.streamRef # 0
        /\ streams[webcam.streamRef] = "live"

(***************************************************************************)
(* Claims about both upload analyzers (SpecApp).                           *)
(***************************************************************************)
WrongVideoType == "Please upload a valid video file (MP4/WebM)."
WrongImageType == "Please upload a valid image file (JPEG/PNG)."

\* The steps that show the wrong-type message change the message only.
C34_Step ==
    /\ (video'.error = WrongVideoType /\ video.error # WrongVideoType) =>
           /\ video' = [video EXCEPT !.error = WrongVideoType]
           /\ runs' = runs
    /\ (image'.error = WrongImageType /\ image.error # WrongImageType) =>
           /\ image' = [image EXCEPT !.error = WrongImageType]
           /\ imageRuns' = imageRuns

\* The message stays until a handler that sets or clears error runs; while
\* it is shown, the file is the one selected before, if any was.
C34_State ==
    /\ video.error = WrongVideoType => video.file \in {None} \cup VideoFiles
    /\ image.error = WrongImageType => image.file \in {None} \cup ImageFiles

\* C34: selecting a file of the wrong type in VideoAnalyzer or ImageAnalyzer
\* sets the error message only: the file selected before, the status, the
\* result, the progress and the preview stay, and no analysis is started or
\* ended by it.
C34_WrongTypeOnlySetsError == [](C34_State) /\ [][C34_Step]_vars

\* A file of the wrong type was selected while the analysis of the video
\* was under way: the message is shown, the analysis goes on.
C34_Witness ==
    \E r \in RunIds :
        /\ runs[r].pc = "analyzing"
        /\ video.status = ANALYZING
        /\ video.file \in VideoFiles
        /\ video.error = WrongVideoType

====
